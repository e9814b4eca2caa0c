----------------------------- MODULE FileTable ------------------------------
(***************************************************************************)
(* The descriptor table behind open, close, ioctl and fcntl, shared by     *)
(* threads: a pool of slots with a high-water mark, the redirection of the *)
(* standard streams at start-up, and the lock that gives a descriptor      *)
(* exclusive use of its device.  open allocates under a semaphore and      *)
(* looks for a lock after it; fcntl takes no semaphore.                    *)
(***************************************************************************)
EXTENDS Integers, Sequences, FiniteSetsExt, TLC

CONSTANTS Device, FileSystem,  \* what a name can resolve to
          DevNull,             \* the device of the standard streams at reset
          None,
          FdCount,             \* ALT_MAX_FD
          Thread,
          Asked,               \* the accesses open is asked for
          Arg,                 \* the flags fcntl is given
          Used                 \* the descriptors the program changes or closes

FileAssumption ==
    /\ DevNull \in Device /\ Device \cap FileSystem = {}
    /\ None \notin Device \cup FileSystem
    /\ FdCount \in Nat /\ FdCount > 3
    /\ Asked \subseteq {{"rd"}, {"wr"}, {"rd", "wr"}}
    /\ Arg \subseteq SUBSET {"rd", "wr", "nonblock"}
    /\ Used \subseteq 0 .. FdCount - 1

VARIABLES fdList,    \* alt_fd_list
          maxFd,     \* alt_max_fd
          redirects, \* the streams alt_io_redirect has yet to redirect
          call,      \* what each thread is in the middle of
          held       \* the access each descriptor in a program's hands was given

vars == <<fdList, maxFd, redirects, call, held>>

Fd == 0 .. FdCount - 1
Std == 0 .. 2
Access == {{"rd"}, {"wr"}, {"rd", "wr"}}
Free == [dev |-> None, flags |-> {}]
NoCall == [op |-> "none"]

\* Flags of zero say O_RDONLY.
Init ==
    /\ fdList = [f \in Fd |-> IF f \in Std THEN [dev |-> DevNull, flags |-> {"rd"}]
                                           ELSE Free]
    /\ maxFd = -1
    /\ redirects = <<1, 0, 2>>
    /\ call = [t \in Thread |-> NoCall]
    /\ held = [f \in Fd |-> IF f \in Std THEN {"rd"} ELSE {}]

\* alt_get_fd takes the first free slot and raises the mark.
FreeFds == {f \in Fd : fdList[f].dev = None}
RaisedToLast(f) == f
RaisedToCount(f) == f + 1
Raised(f) == IF f > maxFd THEN f ELSE maxFd

\* alt_release_fd
Released(f) == IF f > 2 THEN [fdList EXCEPT ![f] = Free] ELSE fdList
OpenFailedKeeping(f) == fdList
OpenFailed(f) == Released(f)

\* alt_file_locked, called for devices only
FileLockedBelow(f) ==
    \E g \in 0 .. maxFd - 1 : /\ g # f /\ fdList[g].dev = fdList[f].dev
                              /\ "excl" \in fdList[g].flags
FileLocked(f) ==
    \E g \in 0 .. maxFd : /\ g # f /\ fdList[g].dev = fdList[f].dev
                          /\ "excl" \in fdList[g].flags

OpenFlags(dev, access) == access \cup (IF dev \in Device THEN {"dev"} ELSE {})

-----------------------------------------------------------------------------
\* alt_io_redirect, before main: open, copy into the stream's slot, release.
\* A stream that cannot be opened stays as it is.
Redirect(dev) ==
    /\ redirects # <<>> /\ FreeFds # {}
    /\ LET std == Head(redirects)
           access == IF std = 0 THEN {"rd"} ELSE {"wr"}
       IN  /\ fdList' = [fdList EXCEPT ![std] =
                           [dev |-> dev, flags |-> OpenFlags(dev, access)]]
           /\ held' = [held EXCEPT ![std] = access]
    /\ maxFd' = Raised(Min(FreeFds))
    /\ redirects' = Tail(redirects)
    /\ UNCHANGED call

RedirectFails ==
    /\ redirects # <<>>
    /\ maxFd' \in {maxFd, Raised(Min(FreeFds))}
    /\ redirects' = Tail(redirects)
    /\ UNCHANGED <<fdList, call, held>>

Idle(t) == redirects = <<>> /\ call[t] = NoCall

\* A program does not close a descriptor another thread is using.
Usable(t, f) == Idle(t) /\ held[f] # {}

\* open: a name that resolves to nothing, or a full table, changes nothing.
Allocate(t, dev, access) ==
    /\ Idle(t) /\ FreeFds # {}
    /\ LET f == Min(FreeFds)
       IN  /\ fdList' = [fdList EXCEPT ![f].dev = dev]
           /\ maxFd' = Raised(f)
           /\ call' = [call EXCEPT ![t] = [op |-> "open", fd |-> f, access |-> access]]
    /\ UNCHANGED <<redirects, held>>

\* The search for a lock is over before the device's own open function runs.
Checked(t) ==
    /\ call[t].op = "open"
    /\ LET f == call[t].fd
       IN  /\ fdList[f].dev \in Device => ~FileLocked(f)
           /\ fdList' = [fdList EXCEPT ![f].flags = OpenFlags(fdList[f].dev, call[t].access)]
    /\ call' = [call EXCEPT ![t].op = "opening"]
    /\ UNCHANGED <<maxFd, redirects, held>>

Opened(t) ==
    /\ call[t].op = "opening"
    /\ held' = [held EXCEPT ![call[t].fd] = call[t].access]
    /\ call' = [call EXCEPT ![t] = NoCall]
    /\ UNCHANGED <<fdList, maxFd, redirects>>

\* The device is locked, or its own open function fails.
NotOpened(t) ==
    /\ \/ call[t].op = "opening"
       \/ /\ call[t].op = "open"
          /\ fdList[call[t].fd].dev \in Device /\ FileLocked(call[t].fd)
    /\ fdList' = OpenFailed(call[t].fd)
    /\ call' = [call EXCEPT ![t] = NoCall]
    /\ UNCHANGED <<maxFd, redirects, held>>

\* The slot is released whether or not the device's close function fails.
Close(t, f) ==
    /\ Usable(t, f) /\ \A u \in Thread : call[u].op # "none" => call[u].fd # f
    /\ fdList' = Released(f)
    /\ held' = [held EXCEPT ![f] = {}]
    /\ UNCHANGED <<maxFd, redirects, call>>

\* TIOCEXCL and TIOCNXCL; on a file system's descriptor they go to its driver.
FdLock(t, f) ==
    /\ Usable(t, f) /\ "dev" \in fdList[f].flags
    /\ \A g \in 0 .. maxFd - 1 : g # f => fdList[g].dev # fdList[f].dev
    /\ fdList' = [fdList EXCEPT ![f].flags = @ \cup {"excl"}]
    /\ UNCHANGED <<maxFd, redirects, call, held>>

FdUnlock(t, f) ==
    /\ Usable(t, f) /\ "dev" \in fdList[f].flags
    /\ fdList' = [fdList EXCEPT ![f].flags = @ \ {"excl"}]
    /\ UNCHANGED <<maxFd, redirects, call, held>>

\* fcntl(F_SETFL): the flags are read, changed and written back, without the
\* semaphore.
FcntlMaskAll == {"nonblock", "rd", "wr"}
FcntlMask == {"nonblock"}

FcntlReads(t, f, new) ==
    /\ Usable(t, f)
    /\ call' = [call EXCEPT ![t] =
         [op |-> "fcntl", fd |-> f,
          flags |-> (fdList[f].flags \ FcntlMask) \cup (new \cap FcntlMask)]]
    /\ UNCHANGED <<fdList, maxFd, redirects, held>>

FcntlWrites(t) ==
    /\ call[t].op = "fcntl"
    /\ fdList' = [fdList EXCEPT ![call[t].fd].flags = call[t].flags]
    /\ call' = [call EXCEPT ![t] = NoCall]
    /\ UNCHANGED <<maxFd, redirects, held>>

Next ==
    \/ \E dev \in Device : Redirect(dev)
    \/ RedirectFails
    \/ \E t \in Thread :
         \/ \E dev \in Device \cup FileSystem, access \in Asked : Allocate(t, dev, access)
         \/ Checked(t) \/ Opened(t) \/ NotOpened(t) \/ FcntlWrites(t)
         \/ \E f \in Used : \/ Close(t, f) \/ FdLock(t, f) \/ FdUnlock(t, f)
                            \/ \E new \in Arg : FcntlReads(t, f, new)

Spec == Init /\ [][Next]_vars

Symmetry == Permutations(Thread)

\* read and write look at the access mode in the flags.
MayRead(f) == "rd" \in fdList[f].flags
MayWrite(f) == "wr" \in fdList[f].flags

-----------------------------------------------------------------------------
\* Type invariant.
Flag == {"rd", "wr", "nonblock", "dev", "excl"}
TypeOK ==
    /\ fdList \in [Fd -> [dev : Device \cup FileSystem \cup {None}, flags : SUBSET Flag]]
    /\ maxFd \in -1 .. FdCount - 1
    /\ redirects \in {<<>>, <<2>>, <<0, 2>>, <<1, 0, 2>>}
    /\ \A t \in Thread : call[t] # NoCall => call[t].fd \in Fd
    /\ held \in [Fd -> Access \cup {{}}]

\* The searches for a lock stop at the mark: no slot of the pool above it is
\* in use, however slots were freed and taken again.
HighWater == \A f \in Fd \ Std : fdList[f].dev # None => f <= maxFd

\* No slot is lost and none given twice: a slot of the pool is in use exactly
\* while a program holds it or one thread is in the middle of opening it,
\* whichever step of an open fails.
Opening(t) == call[t].op \in {"open", "opening"}
NoneLost ==
    /\ \A f \in Fd \ Std : fdList[f].dev # None <=>
         (held[f] # {} \/ \E t \in Thread : Opening(t) /\ call[t].fd = f)
    /\ \A t, u \in Thread :
         (Opening(t) /\ Opening(u) /\ call[t].fd = call[u].fd) => t = u

\* fcntl, by any threads at once, leaves the access a descriptor was opened
\* with.
AccessKept ==
    \A f \in Fd : held[f] # {} => /\ MayRead(f) <=> "rd" \in held[f]
                                  /\ MayWrite(f) <=> "wr" \in held[f]

\* "Further calls to open() for this device will fail until the lock is
\* released": whatever slots were freed and taken meanwhile, an open that looks
\* for a lock on its device finds the one there is.
LockedOut ==
    [][\A t \in Thread : call[t].op = "open" /\ call'[t].op = "opening" =>
         \A g \in Fd \ {call[t].fd} :
            fdList[g].dev = fdList[call[t].fd].dev /\ fdList[g].dev \in Device
              => "excl" \notin fdList[g].flags]_vars

\* "If there are no other open file descriptors which reference the same
\* device, then alt_fd_lock() will grant the lock": a descriptor has the lock
\* only while no other is open on its device.
Exclusive ==
    \A f, g \in Fd : /\ "excl" \in fdList[f].flags /\ held[f] # {}
                     /\ held[g] # {} /\ fdList[g].dev = fdList[f].dev
                     => f = g
=============================================================================
