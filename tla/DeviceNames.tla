------------------------------ MODULE DeviceNames ------------------------------
(***************************************************************************)
(* How open finds what a name belongs to: first among the devices, whose   *)
(* name it must be, then among the file systems, below whose name it must  *)
(* lie.  Both are lists with what was registered last at the head.  DMA    *)
(* channels and flash memories have lists of their own, and are opened by  *)
(* calls of their own with the same search.  A name is a sequence of       *)
(* characters, ended in memory by a null, with anything behind it.         *)
(***************************************************************************)
EXTENDS Integers, SequencesExt

CONSTANTS Letters, Slash, Null,  \* characters
          MaxLen, MaxDevices, MaxChannels,  \* bounds: a name's length, and the lists
          NotFound, NotAsked

NamesAssumption ==
    /\ {Slash, Null} \cap Letters = {} /\ Slash # Null
    /\ {MaxLen, MaxDevices, MaxChannels} \subseteq Nat /\ MaxDevices > 0

VARIABLES devices, fileSystems,  \* the names on each list
          channels,              \* and on those that open does not know
          asked, found           \* the name opened last, and what it belongs to

vars == <<devices, fileSystems, channels, asked, found>>

Channel == {"receive", "transmit", "flash"}

Chars == Letters \cup {Slash}
NameSet == SeqOf(Chars, MaxLen) \ {<<>>}

\* alt_dev_null is the one device there is at first, under some name.
Init == /\ \E null \in NameSet : devices = <<null>>
        /\ fileSystems = <<>> /\ channels = [k \in Channel |-> <<>>]
        /\ asked = <<>> /\ found = NotAsked

\* The first n characters that memcmp looks at, and whether they agree.
InMemory(name, behind) == name \o <<Null>> \o [i \in 1 .. MaxLen |-> behind]
Agree(a, b, n) == \A i \in 1 .. n : a[i] = b[i]

IsDeviceByPrefix(device, name) == Agree(InMemory(device, Null), InMemory(name, Null), Len(name))
IsDevice(device, name) == Agree(InMemory(device, Null), InMemory(name, Null), Len(name) + 1)

MountLenWhole(fs) == Len(fs)
MountLen(fs) == IF fs[Len(fs)] = Slash THEN Len(fs) - 1 ELSE Len(fs)

Owns(fs, name, behind) ==
    LET n == InMemory(name, behind)
    IN  /\ n[MountLen(fs) + 1] \in {Slash, Null}
        /\ Agree(InMemory(fs, behind), n, MountLen(fs))

\* The first of the list among those at the positions that match.
FirstWith(list, matches) == IF matches = {} THEN NotFound ELSE list[Min(matches)]

\* alt_dev_llist_insert, with which every list grows.
Inserted(name, list) == <<name>> \o list

RegisterDevice(name) ==
    /\ Len(devices) < MaxDevices /\ devices' = Inserted(name, devices)
    /\ UNCHANGED <<fileSystems, channels, asked, found>>

RegisterFileSystem(name) ==
    /\ Len(fileSystems) < MaxDevices /\ fileSystems' = Inserted(name, fileSystems)
    /\ UNCHANGED <<devices, channels, asked, found>>

RegisterChannel(kind, name) ==
    /\ Len(channels[kind]) < MaxChannels
    /\ channels' = [channels EXCEPT ![kind] = Inserted(name, @)]
    /\ UNCHANGED <<devices, fileSystems, asked, found>>

Result(device, fs) ==
    CASE device # NotFound -> [kind |-> "device", name |-> device]
      [] device = NotFound /\ fs # NotFound -> [kind |-> "fs", name |-> fs]
      [] OTHER -> [kind |-> "none", name |-> <<>>]

\* alt_find_dev
FindDev(name, list) == FirstWith(list, {i \in DOMAIN list : IsDevice(list[i], name)})

Open(name, behind) ==
    /\ asked = <<>> /\ asked' = name
    /\ found' = Result(
                  FindDev(name, devices),
                  FirstWith(fileSystems,
                            {i \in DOMAIN fileSystems : Owns(fileSystems[i], name, behind)}))
    /\ UNCHANGED <<devices, fileSystems, channels>>

\* The channel, or no name, of which the calls about DMA tell by ENODEV.
OpenReceive(name) == [kind |-> "receive", name |-> FindDev(name, channels["receive"])]
OpenTransmit(name) == [kind |-> "transmit", name |-> FindDev(name, channels["transmit"])]
OpenFlash(name) == [kind |-> "flash", name |-> FindDev(name, channels["flash"])]

OpenChannel(name) ==
    /\ asked = <<>> /\ asked' = name
    /\ found' \in {OpenReceive(name), OpenTransmit(name), OpenFlash(name)}
    /\ UNCHANGED <<devices, fileSystems, channels>>

Next == \/ \E n \in NameSet : RegisterDevice(n) \/ RegisterFileSystem(n) \/ OpenChannel(n)
        \/ \E n \in NameSet, k \in Channel : RegisterChannel(k, n)
        \/ \E n \in NameSet, b \in Chars \cup {Null} : Open(n, b)

Spec == Init /\ [][Next]_vars

-----------------------------------------------------------------------------
\* What a name means: the path below a directory.
Below(dir, name) ==
    LET d == IF Last(dir) = Slash THEN Front(dir) ELSE dir
    IN  name = d \/ IsPrefix(d \o <<Slash>>, name)

\* Type invariant.
TypeOK ==
    /\ devices \in Seq(NameSet) /\ fileSystems \in Seq(NameSet)
    /\ Len(devices) <= MaxDevices /\ Len(fileSystems) <= MaxDevices
    /\ \A k \in Channel : Len(channels[k]) <= MaxChannels
    /\ found = NotAsked \/ found.name \in NameSet \cup {<<>>}

\* "name must be an exact match for the devices registered name", and a device
\* goes before a file system of the same name; a channel is found under its
\* name, and nothing of another kind that has the same.
DeviceByItsName ==
    [][found' # found =>
           /\ found'.kind \in {"device", "fs", "none"} =>
                  (found'.kind = "device") = (\E i \in DOMAIN devices : devices[i] = asked')
           /\ found'.kind = "device" => found'.name = asked'
           /\ found'.kind \in Channel =>
                  found'.name = IF asked' \in ToSet(channels[found'.kind])
                                THEN asked' ELSE NotFound]_vars

\* "the filename "/myfilesystem/junk.txt" would match: "/myfilesystem", but
\* not: "/myfile"": with a slash at the end of the mount point or without,
\* and whatever lies in memory behind the name.
FileByItsDirectory ==
    [][found' # found =>
           /\ found'.kind = "fs" => Below(found'.name, asked')
           /\ found'.kind = "none" =>
                  \A i \in DOMAIN fileSystems : ~Below(fileSystems[i], asked')]_vars
=============================================================================
