----------------------------- MODULE SystemCalls -----------------------------
(***************************************************************************)
(* read, write, lseek, ioctl, fstat, stat and isatty in the two builds of  *)
(* the support package.  With file descriptors a call goes through the     *)
(* table to whatever functions the driver has; with direct drivers it goes *)
(* by the number of the descriptor to the driver linked for that stream.   *)
(* The same program makes the same calls in either build, on a device      *)
(* that answers both alike, and both leave what they return and errno.     *)
(* kill and the calls about processes, links and times are the same in     *)
(* both: there is one process and no directory.                            *)
(***************************************************************************)
EXTENDS Integers

CONSTANTS Refused,    \* what a driver returns when it fails, negated
          Amounts,    \* what read and write return when they do not
          Functions,  \* sets of functions a driver may have
          Ticks       \* what the system clock may count, none if there is none

CallsAssumption ==
    /\ Refused \subseteq Nat \ {0} /\ Amounts \subseteq Nat /\ Ticks \subseteq Nat
    /\ \A f \in Functions : f \subseteq {"read", "write", "lseek", "ioctl", "fstat"}

VARIABLES has,    \* the functions of the driver behind the descriptors
          errno,  \* in each build
          last,   \* the last call and what it returned
          ended   \* a signal ended the program

vars == <<has, errno, last, ended>>

Build == {"table", "direct"}
Std == 0 .. 2
NotOpened == -1
Files == Std \cup {NotOpened}

ECHILD == 10
EACCES == 13
EINVAL == 22
ENOTTY == 25
ESRCH == 3
EBADFD == 81
ENOSYS == 88
ENOTSUP == 134

\* What a call returns and what it stores to errno; 0 says nothing.
Result(value, error) == [value |-> value, error |-> error]
Fails(e) == Result(-1, e)
Raw(value) == Result(value, 0)
AsCodeUnsigned(value) == IF value < 0 THEN Fails(value) ELSE Raw(value)
AsCode(value) == IF value < 0 THEN Fails(-value) ELSE Raw(value)

\* alt_io_redirect opened the streams.
ReadsFrom(file) == file = 0
WritesTo(file) == file \in {1, 2}

\* With file descriptors: r is what the driver returns if it is called.  A
\* driver without fstat is of a character device.
TableRead(file, r) ==
    {IF ReadsFrom(file) /\ "read" \in has THEN AsCode(r) ELSE Fails(EACCES)}
TableWrite(file, r) ==
    {IF WritesTo(file) /\ "write" \in has THEN AsCode(r) ELSE Fails(EACCES)}
TableLseek(r) == {IF "lseek" \in has THEN AsCode(r) ELSE Fails(ENOTSUP)}
TableFstat(r) == {IF "fstat" \in has THEN Raw(r) ELSE Raw(0)}

\* Requests other than the two locks of FileTable.tla.
TableIoctl(r) ==
    {IF "ioctl" \in has THEN Result(r, IF r < 0 THEN -r ELSE 0)
                        ELSE Result(-ENOTTY, ENOTTY)}

\* When a driver's fstat fails, isatty looks at a structure nobody wrote.
WithoutFstatNo == {Raw(0)}
WithoutFstat == {Raw(1)}
TableIsatty == IF "fstat" \in has THEN {Raw(0), Raw(1)} ELSE WithoutFstat

TableNotOpened(op) ==
    {CASE op = "isatty" -> Result(0, EBADFD)
       [] op = "ioctl" -> Result(-EBADFD, EBADFD)
       [] OTHER -> Fails(EBADFD)}

\* stat is open, fstat and close, whatever each of them returns: that open
\* failed is lost, since the other two then fail with EBADFD.
LastError(first, second) == IF second = 0 THEN first ELSE second
TableStat(r) ==
    {Fails(EBADFD)} \cup
    {Result(t.value, LastError(t.error, closed)) :
         t \in TableFstat(r), closed \in {0} \cup Refused}

TableOpened(op, file, r) ==
    CASE op = "read" -> TableRead(file, r)
      [] op = "write" -> TableWrite(file, r)
      [] op = "lseek" -> TableLseek(r)
      [] op = "ioctl" -> TableIoctl(r)
      [] op = "fstat" -> TableFstat(r)
      [] op = "isatty" -> TableIsatty

Table(op, file, r) ==
    IF op = "stat" THEN TableStat(r)
    ELSE IF file = NotOpened THEN TableNotOpened(op)
    ELSE TableOpened(op, file, r)

\* With direct drivers: what the driver returns is returned as it is, and
\* what a program asks of any other descriptor fails.
DirectAnyFile(file) == TRUE
DirectReads(file) == file = 0
DirectRead(file, r) == IF DirectReads(file) THEN Raw(r) ELSE Fails(EBADFD)
DirectWrite(file, r) == IF WritesTo(file) THEN Raw(r) ELSE Fails(EBADFD)
DirectIoctl(file, r) == IF file \in Std THEN Raw(r) ELSE Fails(EBADFD)
DirectFstat(file) == Raw(IF file \in Std THEN 0 ELSE -1)
DirectIsatty(file) == Raw(IF file \in Std THEN 1 ELSE 0)
DirectLseek == Fails(ENOSYS)

\* There is nothing to open or close: stat, the same in both builds, asks for
\* the state of a file that it could not open.
DirectOpen == Fails(ENOSYS)
DirectClose == Fails(ENOSYS)
DirectStat == Result(DirectFstat(NotOpened).value, LastError(DirectOpen.error, DirectClose.error))

Direct(op, file, r) ==
    CASE op = "read" -> DirectRead(file, r)
      [] op = "write" -> DirectWrite(file, r)
      [] op = "lseek" -> DirectLseek
      [] op = "ioctl" -> DirectIoctl(file, r)
      [] op = "fstat" -> DirectFstat(file)
      [] op = "stat" -> DirectStat
      [] op = "isatty" -> DirectIsatty(file)

Ops == {"read", "write", "lseek", "ioctl", "fstat", "stat", "isatty"}

\* A program that makes a call its driver has no function for cannot be linked
\* with direct drivers, and one that asks for a name is refused there; what
\* they would do is not compared.
Linked(op) == op # "stat" /\ (op \in {"read", "write", "ioctl"} => op \in has)

-----------------------------------------------------------------------------
NoCall == [op |-> "none", compared |-> FALSE, value |-> [b \in Build |-> 0]]

Init ==
    /\ has \in Functions
    /\ errno = [b \in Build |-> 0]
    /\ last = NoCall /\ ended = FALSE

Leave(op, compared, result) ==
    /\ errno' = [b \in Build |-> IF result[b].error = 0 THEN errno[b] ELSE result[b].error]
    /\ last' = [op |-> op, compared |-> compared,
                value |-> [b \in Build |-> result[b].value]]

\* fstat and lseek return 0 when they succeed.
DriverReturns(op) ==
    {-e : e \in Refused} \cup (IF op \in {"read", "write"} THEN Amounts ELSE {0})

Call(op, file, r) ==
    /\ ~ended
    /\ \E t \in Table(op, file, r) :
         Leave(op, Linked(op) /\ r >= 0, [table |-> t, direct |-> Direct(op, file, r)])
    /\ UNCHANGED <<has, ended>>

\* What exists only to be linked, and what needs no descriptor.
Fork == {Fails(ENOSYS)}
Execve == {Fails(ENOSYS)}
LinkCall == {Fails(ENOSYS)}
Unlink == {Fails(ENOSYS)}
Rename == {Fails(ENOSYS)}
Wait == {Fails(ECHILD)}
Getpid == {Raw(0)}
Times == IF Ticks = {} THEN {Result(0, ENOSYS)} ELSE {Raw(t) : t \in Ticks}

AloneResults(op) ==
    CASE op = "fork" -> Fork
      [] op = "execve" -> Execve
      [] op = "link" -> LinkCall
      [] op = "unlink" -> Unlink
      [] op = "rename" -> Rename
      [] op = "wait" -> Wait
      [] op = "getpid" -> Getpid
      [] op = "times" -> Times

AloneOps == {"fork", "execve", "link", "unlink", "rename", "wait", "getpid", "times"}

Alone(op) ==
    /\ ~ended
    /\ \E result \in AloneResults(op) : Leave(op, TRUE, [b \in Build |-> result])
    /\ UNCHANGED <<has, ended>>

\* kill: the only process is the caller, which a negative number or zero names.
Ignored == {"null", "SIGCHLD", "SIGURG"}
Ends == {"SIGABRT", "SIGKILL", "SIGTERM"}
KillResult(pid, sig) ==
    IF pid > 0 THEN Fails(ESRCH)
    ELSE IF sig \in Ignored THEN Raw(0) ELSE Fails(EINVAL)

Kill(pid, sig) ==
    /\ ~ended /\ (pid > 0 \/ sig \notin Ends)
    /\ Leave("kill", TRUE, [b \in Build |-> KillResult(pid, sig)])
    /\ UNCHANGED <<has, ended>>

KillEnds(pid, sig) ==
    /\ ~ended /\ pid <= 0 /\ sig \in Ends
    /\ ended' = TRUE
    /\ UNCHANGED <<has, errno, last>>

Next ==
    \/ \E op \in Ops, file \in Files : \E r \in DriverReturns(op) : Call(op, file, r)
    \/ \E op \in AloneOps : Alone(op)
    \/ \E pid \in {-1, 0, 1}, sig \in Ignored \cup Ends \cup {"SIGCONT"} :
         Kill(pid, sig) \/ KillEnds(pid, sig)

Spec == Init /\ [][Next]_vars

-----------------------------------------------------------------------------
\* Type invariant.
TypeOK ==
    /\ has \in Functions /\ errno \in [Build -> Int]
    /\ last.op \in Ops \cup AloneOps \cup {"none", "kill"} /\ last.value \in [Build -> Int]
    /\ ended \in BOOLEAN

\* On a device that only takes and gives characters, as the JTAG UART, a
\* program cannot tell the builds apart until the device fails: the same calls
\* return the same, or fail, in both.
BuildsAgree ==
    last.compared /\ has \subseteq {"read", "write", "ioctl"} =>
        \/ last.value["table"] = last.value["direct"]
        \/ \A b \in Build : last.value[b] < 0

\* With file descriptors, whichever call and whichever part of it fails, errno
\* holds a code afterwards, and never the negative number a driver returned.
\* (fstat, and stat with it, passes on what the driver returns.)
FailureTold ==
    /\ \A b \in Build : errno[b] >= 0
    /\ last.value["table"] < 0 /\ last.op \notin {"fstat", "stat"} => errno["table"] > 0
=============================================================================
