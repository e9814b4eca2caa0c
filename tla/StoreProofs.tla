----------------------------- MODULE StoreProofs -----------------------------
(***************************************************************************)
(* Theorems about the parts of the support package that hold on to         *)
(* something between calls (the file descriptors, the two heaps, the       *)
(* caches, the performance counter, the two builds of the system calls and *)
(* the names of devices), about the log's printf, and about the router and *)
(* the queue that are the workloads, each as MCStores instantiates it, and *)
(* then of all of them as MCStores composes them, for every value of its   *)
(* constants that StoresAssumption and OthersAssumption allow.  Each       *)
(* section is about one part: the inductive invariant, one lemma for each  *)
(* of its actions, and the theorems.                                       *)
(***************************************************************************)
EXTENDS MCStores, FiniteSetTheorems, WellFoundedInduction, TLAPS

-----------------------------------------------------------------------------
\* Division with remainder: the quotient and the remainder are what fits.
LEMMA Division ==
  ASSUME NEW d \in Nat \ {0}, NEW x \in Int
  PROVE  /\ x \div d \in Int /\ x % d \in 0 .. d - 1
         /\ x = (d * (x \div d)) + (x % d)
  BY SMT

LEMMA Quotient ==
  ASSUME NEW d \in Nat \ {0}, NEW q \in Int, NEW r \in 0 .. d - 1
  PROVE  (d * q + r) \div d = q /\ (d * q + r) % d = r
  BY SMT

\* Of some numbers, one is the smallest.
LEMMA SmallestOf ==
  ASSUME NEW X \in SUBSET Nat, X # {}
  PROVE  \E x \in X : \A y \in X : x <= y
<1> DEFINE Below == {p \in Nat \X Nat : p[1] < p[2]}
<1>1. OpToRel(<, Nat) = Below
  BY Zenon DEF OpToRel
<1>2. IsWellFoundedOn(Below, Nat)
  BY <1>1, NatLessThanWellFounded, Zenon
<1>3. PICK x \in X : \A y \in X : ~ (<<y, x>> \in Below)
  <2> HIDE DEF Below
  <2> QED BY <1>2, WFMin, Zenon
<1>4. ASSUME NEW y \in X PROVE x <= y
  <2>1. ~ (<<y, x>> \in Below)
    BY <1>3
  <2>2. y < x => <<y, x>> \in Below
    OBVIOUS
  <2> QED BY <2>1, <2>2
<1> QED
  BY <1>4

-----------------------------------------------------------------------------
\* FileTable.tla.

\* The smallest of some numbers is one of them: alt_get_fd finds a free slot
\* if there is one.
LEMMA MinIn ==
  ASSUME NEW X \in SUBSET Nat, X # {}
  PROVE  Files!Min(X) \in X
  BY SmallestOf DEF Files!Min

-----------------------------------------------------------------------------
\* What a thread can be in the middle of.
CallKind ==
    {Files!NoCall} \cup [op : {"open", "opening"}, fd : Files!Fd \ Files!Std, access : Files!Access]
             \cup [op : {"fcntl"}, fd : Files!Fd, flags : SUBSET Files!Flag]

Mode(flags) == flags \cap {"rd", "wr"}

Typed ==
    /\ fdList \in [Files!Fd -> [dev : Device \cup FileSystem \cup {None}, flags : SUBSET Files!Flag]]
    /\ maxFd \in -1 .. FdCount - 1
    /\ redirects \in {<<>>, <<2>>, <<0, 2>>, <<1, 0, 2>>}
    /\ call \in [Thread -> CallKind]
    /\ held \in [Files!Fd -> Files!Access \cup {{}}]

\* The standard streams always have a device, and no slot of the pool has one
\* until they are redirected.
StdKept ==
    /\ \A f \in Files!Std : fdList[f].dev # None
    /\ redirects # <<>> => \A f \in Files!Fd \ Files!Std : fdList[f].dev = None

\* A slot that is being opened is in nobody's hands; nobody closes one that
\* fcntl works on, and fcntl will write the access it has.
CallsApart ==
    \A t \in Thread :
      /\ call[t].op # "none" => redirects = <<>>
      /\ Files!Opening(t) => held[call[t].fd] = {}
      /\ call[t].op = "opening" => Mode(fdList[call[t].fd].flags) = call[t].access
      /\ call[t].op = "fcntl" => /\ held[call[t].fd] # {}
                                 /\ Mode(call[t].flags) = held[call[t].fd]

ModeKept == \A f \in Files!Fd : held[f] # {} => Mode(fdList[f].flags) = held[f]

IInv == Typed /\ StdKept /\ CallsApart /\ ModeKept /\ Files!HighWater /\ Files!NoneLost

-----------------------------------------------------------------------------
\* At reset the standard streams have the null device and the pool is free.
LEMMA InitInv == Files!FileAssumption /\ Files!Init => IInv
<1> SUFFICES ASSUME Files!FileAssumption, Files!Init PROVE IInv
  OBVIOUS
<1> USE DEF Files!FileAssumption, Files!Init, Files!Free
<1>1. Typed
  BY DEF Typed, CallKind, Files!NoCall, Files!Fd, Files!Std, Files!Access, Files!Flag
<1>2. StdKept
  BY DEF StdKept, Files!Fd, Files!Std
<1>3. CallsApart
  BY DEF CallsApart, Files!NoCall, Files!Opening
<1>4. ModeKept
  BY DEF ModeKept, Mode, Files!Fd, Files!Std
<1>5. Files!HighWater
  BY DEF Files!HighWater, Files!Fd, Files!Std
<1>6. Files!NoneLost
  BY DEF Files!NoneLost, Files!NoCall, Files!Opening, Files!Fd, Files!Std
<1> QED
  BY <1>1, <1>2, <1>3, <1>4, <1>5, <1>6 DEF IInv

\* What a call in progress is.
LEMMA CallTyped ==
  ASSUME Typed, NEW t \in Thread
  PROVE  /\ Files!Opening(t) => /\ call[t].fd \in Files!Fd \ Files!Std /\ call[t].access \in Files!Access
                          /\ call[t] = [op |-> call[t].op, fd |-> call[t].fd,
                                        access |-> call[t].access]
         /\ call[t].op = "fcntl" => call[t].fd \in Files!Fd /\ call[t].flags \in SUBSET Files!Flag
         /\ call[t].op # "none" => call[t].fd \in Files!Fd
         /\ call[t].op \in {"none", "open", "opening", "fcntl"}
         /\ call[t].op = "none" => call[t] = Files!NoCall
BY DEF Typed, CallKind, Files!NoCall, Files!Opening

\* A slot that alt_get_fd finds.
LEMMA FreeFound ==
  ASSUME Files!FileAssumption, StdKept, Files!FreeFds # {}
  PROVE  Files!Min(Files!FreeFds) \in Files!Fd \ Files!Std /\ fdList[Files!Min(Files!FreeFds)].dev = None
<1>1. Files!FreeFds \in SUBSET Nat
  BY DEF Files!FreeFds, Files!Fd, Files!FileAssumption
<1>2. Files!Min(Files!FreeFds) \in Files!FreeFds
  BY <1>1, MinIn
<1> QED
  BY <1>2 DEF Files!FreeFds, StdKept

\* Steps that give and take no slot.
LEMMA SameSlots ==
  ASSUME Files!NoneLost, held' = held,
         \A f \in Files!Fd : fdList'[f].dev = fdList[f].dev,
         \A u \in Thread : /\ Files!Opening(u)' <=> Files!Opening(u)
                           /\ Files!Opening(u) => call'[u].fd = call[u].fd
  PROVE  Files!NoneLost'
BY DEF Files!NoneLost, Files!Opening

\* alt_get_fd never lowers the mark and raises it to the slot it returns.
LEMMA RaisedTyped ==
  ASSUME Files!FileAssumption, Typed, NEW f \in Files!Fd
  PROVE  Files!Raised(f) \in -1 .. FdCount - 1 /\ Files!Raised(f) >= f /\ Files!Raised(f) >= maxFd
BY DEF Typed, Files!Raised, Files!Fd, Files!FileAssumption

\* alt_io_redirect takes one stream after the other.
LEMMA RedirectsLeft ==
  ASSUME Typed, redirects # <<>>
  PROVE  Head(redirects) \in Files!Std /\ Tail(redirects) \in {<<>>, <<2>>, <<0, 2>>}
<1>1. CASE redirects = <<2>>
  BY <1>1 DEF Files!Std
<1>2. CASE redirects = <<0, 2>>
  <2>1. Head(<<0, 2>>) = 0
    OBVIOUS
  <2>2. Tail(<<0, 2>>) = <<2>>
    OBVIOUS
  <2> QED BY <1>2, <2>1, <2>2 DEF Files!Std
<1>3. CASE redirects = <<1, 0, 2>>
  <2>1. Head(<<1, 0, 2>>) = 1
    OBVIOUS
  <2>2. Tail(<<1, 0, 2>>) = <<0, 2>>
    OBVIOUS
  <2> QED BY <1>3, <2>1, <2>2 DEF Files!Std
<1> QED
  BY <1>1, <1>2, <1>3 DEF Typed

\* A stream that is redirected takes the device and the access of the open,
\* whose slot is free again.
LEMMA RedirectStep ==
  ASSUME Files!FileAssumption, IInv, NEW dev \in Device, Files!Redirect(dev)
  PROVE  IInv'
<1> USE DEF Files!FileAssumption, IInv
<1> DEFINE std == Head(redirects)
           access == IF std = 0 THEN {"rd"} ELSE {"wr"}
           new == [dev |-> dev, flags |-> Files!OpenFlags(dev, access)]
<1>1. /\ std \in Files!Std /\ std \in Files!Fd /\ redirects' \in {<<>>, <<2>>, <<0, 2>>}
      /\ redirects # <<>>
  BY RedirectsLeft DEF Files!Redirect, Files!Std, Files!Fd
<1>2. maxFd' \in -1 .. FdCount - 1 /\ maxFd' >= maxFd
  BY FreeFound, RaisedTyped DEF Files!Redirect
<1>3. /\ new \in [dev : Device \cup FileSystem \cup {None}, flags : SUBSET Files!Flag]
      /\ access \in Files!Access /\ Mode(new.flags) = access
      /\ new.dev # None
  BY DEF Files!OpenFlags, Files!Flag, Files!Access, Mode
<1>4. /\ fdList' = [fdList EXCEPT ![std] = new] /\ held' = [held EXCEPT ![std] = access]
      /\ call' = call
  BY DEF Files!Redirect
<1> HIDE DEF std, access, new
<1>5. Typed'
  BY <1>1, <1>2, <1>3, <1>4 DEF Typed
<1>6. StdKept'
  BY <1>1, <1>3, <1>4 DEF StdKept, Typed
<1>7. CallsApart'
  BY <1>1, <1>4 DEF CallsApart, Files!Opening
<1>8. ModeKept'
  BY <1>1, <1>3, <1>4 DEF ModeKept, Typed
<1>9. Files!HighWater'
  BY <1>1, <1>2, <1>4 DEF Files!HighWater, Typed, Files!Fd, Files!Std
<1>10. Files!NoneLost'
  BY <1>1, <1>4, CallTyped DEF Files!NoneLost, Files!Opening, Typed
<1> QED
  BY <1>5, <1>6, <1>7, <1>8, <1>9, <1>10

\* A stream that cannot be opened leaves at most the mark higher.
LEMMA RedirectFailsStep ==
  ASSUME Files!FileAssumption, IInv, Files!RedirectFails
  PROVE  IInv'
<1> USE DEF Files!FileAssumption, IInv
<1>1. redirects # <<>> /\ redirects' \in {<<>>, <<2>>, <<0, 2>>}
  BY RedirectsLeft DEF Files!RedirectFails
<1>2. 3 \in Files!FreeFds
  BY <1>1 DEF Files!FreeFds, StdKept, Files!Fd, Files!Std
<1>3. maxFd' \in -1 .. FdCount - 1 /\ maxFd' >= maxFd
  <2>1. Files!Min(Files!FreeFds) \in Files!Fd
    BY <1>2, FreeFound
  <2>2. maxFd' = maxFd \/ maxFd' = Files!Raised(Files!Min(Files!FreeFds))
    BY DEF Files!RedirectFails
  <2>3. maxFd \in -1 .. FdCount - 1
    BY DEF Typed
  <2> QED BY <2>1, <2>2, <2>3, RaisedTyped
<1>4. fdList' = fdList /\ held' = held /\ call' = call
  BY DEF Files!RedirectFails
<1>5. Typed'
  BY <1>1, <1>3, <1>4 DEF Typed
<1>6. StdKept'
  BY <1>1, <1>4 DEF StdKept
<1>7. CallsApart' /\ ModeKept'
  BY <1>1, <1>4 DEF CallsApart, ModeKept, Files!Opening
<1>8. Files!HighWater'
  BY <1>3, <1>4 DEF Files!HighWater, Typed, Files!Fd
<1>9. Files!NoneLost'
  BY <1>4 DEF Files!NoneLost, Files!Opening
<1> QED
  BY <1>5, <1>6, <1>7, <1>8, <1>9

\* A slot that open allocates was free, and in nobody's hands.
LEMMA AllocateStep ==
  ASSUME Files!FileAssumption, IInv, NEW t \in Thread, NEW dev \in Device \cup FileSystem,
         NEW access \in Asked, Files!Allocate(t, dev, access)
  PROVE  IInv'
<1> USE DEF Files!FileAssumption, IInv
<1> DEFINE f == Files!Min(Files!FreeFds)
           new == [op |-> "open", fd |-> f, access |-> access]
<1>1. f \in Files!Fd \ Files!Std /\ fdList[f].dev = None
  BY FreeFound DEF Files!Allocate
<1>2. Files!Raised(f) \in -1 .. FdCount - 1 /\ Files!Raised(f) >= f /\ Files!Raised(f) >= maxFd
  BY <1>1, RaisedTyped
<1>3. /\ fdList' = [fdList EXCEPT ![f].dev = dev] /\ maxFd' = Files!Raised(f)
      /\ call' = [call EXCEPT ![t] = new]
      /\ redirects' = redirects /\ held' = held /\ redirects = <<>> /\ call[t] = Files!NoCall
  BY DEF Files!Allocate, Files!Idle
<1>4. new \in CallKind /\ dev # None
  BY <1>1 DEF CallKind, Files!Access
<1>5. /\ \A g \in Files!Fd : g # f => fdList'[g] = fdList[g]
      /\ fdList'[f].dev = dev
      /\ fdList' \in [Files!Fd -> [dev : Device \cup FileSystem \cup {None}, flags : SUBSET Files!Flag]]
      /\ \A g \in Files!Fd : fdList'[g].flags = fdList[g].flags
  BY <1>1, <1>3 DEF Typed
<1>6. /\ \A u \in Thread \ {t} : call'[u] = call[u]
      /\ call'[t] = new /\ new.op = "open" /\ new.fd = f
  BY <1>3 DEF Typed
<1>7. held[f] = {} /\ \A u \in Thread : Files!Opening(u) => call[u].fd # f
  BY <1>1 DEF Files!NoneLost
<1> HIDE DEF f, new
<1>8. Typed'
  BY <1>2, <1>3, <1>4, <1>5 DEF Typed
<1>9. StdKept'
  BY <1>1, <1>3, <1>5 DEF StdKept, Files!Fd, Files!Std
<1>10. CallsApart'
  <2>1. ASSUME NEW u \in Thread \ {t}, Files!Opening(u) PROVE call[u].fd # f /\ call[u].fd \in Files!Fd
    BY <1>7, <2>1, CallTyped DEF f
  <2>2. /\ Files!Opening(t)' /\ call'[t].op = "open" /\ held'[call'[t].fd] = {}
        /\ redirects' = <<>>
    BY <1>3, <1>6, <1>7 DEF Files!Opening
  <2>3. ASSUME NEW u \in Thread \ {t} PROVE Files!Opening(u)' <=> Files!Opening(u)
    BY <1>6 DEF Files!Opening
  <2> QED BY <1>3, <1>5, <1>6, <2>1, <2>2, <2>3 DEF CallsApart, Files!Opening
<1>11. ModeKept'
  BY <1>3, <1>5 DEF ModeKept
<1>12. Files!HighWater'
  BY <1>2, <1>3, <1>5 DEF Files!HighWater, Typed, Files!Fd
<1>13. ~Files!Opening(t)
  BY <1>3 DEF Files!Opening, Files!NoCall
<1>14. Files!NoneLost'
  BY <1>1, <1>3, <1>4, <1>5, <1>6, <1>7, <1>13 DEF Files!NoneLost, Files!Opening
<1> QED
  BY <1>8, <1>9, <1>10, <1>11, <1>12, <1>14

\* A slot past the search for a lock has its flags.
LEMMA CheckedStep ==
  ASSUME Files!FileAssumption, IInv, NEW t \in Thread, Files!Checked(t)
  PROVE  IInv'
<1> USE DEF Files!FileAssumption, IInv
<1> DEFINE f == call[t].fd
           flags == Files!OpenFlags(fdList[f].dev, call[t].access)
<1>1. Files!Opening(t) /\ call[t].op = "open" /\ redirects = <<>>
  BY DEF Files!Checked, Files!Opening, CallsApart
<1>2. /\ f \in Files!Fd \ Files!Std /\ call[t].access \in Files!Access /\ held[f] = {}
      /\ call[t] = [op |-> call[t].op, fd |-> f, access |-> call[t].access]
  BY <1>1, CallTyped DEF CallsApart
<1>3. /\ fdList' = [fdList EXCEPT ![f].flags = flags]
      /\ call' = [call EXCEPT ![t].op = "opening"]
      /\ maxFd' = maxFd /\ redirects' = redirects /\ held' = held
  BY DEF Files!Checked
<1>4. flags \in SUBSET Files!Flag /\ Mode(flags) = call[t].access
  BY <1>2 DEF Files!OpenFlags, Files!Access, Files!Flag, Mode
<1>5. /\ \A g \in Files!Fd : g # f => fdList'[g] = fdList[g]
      /\ \A g \in Files!Fd : fdList'[g].dev = fdList[g].dev
      /\ fdList'[f].flags = flags
      /\ fdList' \in [Files!Fd -> [dev : Device \cup FileSystem \cup {None}, flags : SUBSET Files!Flag]]
  BY <1>2, <1>3, <1>4 DEF Typed
<1>6. /\ \A u \in Thread \ {t} : call'[u] = call[u]
      /\ call'[t] = [op |-> "opening", fd |-> f, access |-> call[t].access]
      /\ DOMAIN call' = Thread /\ call' = [u \in Thread |-> call'[u]]
  BY <1>2, <1>3 DEF Typed
<1>7. \A u \in Thread \ {t} : Files!Opening(u) => call[u].fd # f
  BY <1>1 DEF Files!NoneLost
<1> HIDE DEF f, flags
<1>8. call'[t] \in CallKind
  BY <1>2, <1>6 DEF CallKind
<1>9. Typed'
  BY <1>3, <1>5, <1>6, <1>8 DEF Typed
<1>10. StdKept' /\ Files!HighWater'
  BY <1>1, <1>3, <1>5 DEF StdKept, Files!HighWater, Files!Fd, Files!Std
<1>11. CallsApart'
  <2>1. ASSUME NEW u \in Thread \ {t}, Files!Opening(u) PROVE call[u].fd # f /\ call[u].fd \in Files!Fd
    BY <1>7, <2>1, CallTyped
  <2> QED BY <1>1, <1>2, <1>3, <1>4, <1>5, <1>6, <2>1 DEF CallsApart, Files!Opening
<1>12. ModeKept'
  BY <1>2, <1>3, <1>5 DEF ModeKept
<1>13. Files!NoneLost'
  <2>1. \A u \in Thread : /\ Files!Opening(u)' <=> Files!Opening(u)
                          /\ Files!Opening(u) => call'[u].fd = call[u].fd
    BY <1>1, <1>6 DEF Files!Opening, f
  <2> QED BY <1>3, <1>5, <2>1, SameSlots
<1> QED
  BY <1>9, <1>10, <1>11, <1>12, <1>13

\* A slot whose device has opened is the program's.
LEMMA OpenedStep ==
  ASSUME Files!FileAssumption, IInv, NEW t \in Thread, Files!Opened(t)
  PROVE  IInv'
<1> USE DEF Files!FileAssumption, IInv
<1> DEFINE f == call[t].fd
<1>1. Files!Opening(t) /\ call[t].op = "opening" /\ redirects = <<>>
  BY DEF Files!Opened, Files!Opening, CallsApart
<1>2. /\ f \in Files!Fd \ Files!Std /\ call[t].access \in Files!Access /\ held[f] = {}
      /\ Mode(fdList[f].flags) = call[t].access
  BY <1>1, CallTyped DEF CallsApart
<1>3. /\ held' = [held EXCEPT ![f] = call[t].access]
      /\ call' = [call EXCEPT ![t] = Files!NoCall]
      /\ maxFd' = maxFd /\ redirects' = redirects /\ fdList' = fdList
  BY DEF Files!Opened
<1>4. /\ \A u \in Thread \ {t} : call'[u] = call[u]
      /\ call'[t] = Files!NoCall /\ Files!NoCall.op = "none" /\ Files!NoCall \in CallKind
  BY <1>3 DEF Typed, Files!NoCall, CallKind
<1>5. \A u \in Thread \ {t} : Files!Opening(u) => call[u].fd # f
  BY <1>1 DEF Files!NoneLost
<1>6. /\ \A g \in Files!Fd : g # f => held'[g] = held[g]
      /\ held'[f] = call[t].access /\ call[t].access # {}
  BY <1>2, <1>3 DEF Typed, Files!Access
<1>7. Typed'
  BY <1>2, <1>3, <1>4 DEF Typed
<1> HIDE DEF f
<1>8. StdKept' /\ Files!HighWater'
  BY <1>3 DEF StdKept, Files!HighWater
<1>9. CallsApart'
  <2>1. ASSUME NEW u \in Thread \ {t}, call[u].op # "none" PROVE call[u].fd # f /\ call[u].fd \in Files!Fd
    <3>1. CASE Files!Opening(u)
      BY <1>5, <3>1, CallTyped
    <3>2. CASE call[u].op = "fcntl"
      BY <1>2, <3>2, CallTyped DEF CallsApart
    <3> QED BY <2>1, <3>1, <3>2, CallTyped DEF Files!Opening
  <2> QED BY <1>1, <1>3, <1>4, <1>6, <2>1 DEF CallsApart, Files!Opening
<1>10. ModeKept'
  BY <1>2, <1>3, <1>6 DEF ModeKept
<1>11. Files!NoneLost'
  BY <1>1, <1>2, <1>3, <1>4, <1>5, <1>6 DEF Files!NoneLost, Files!Opening, f
<1> QED
  BY <1>7, <1>8, <1>9, <1>10, <1>11

\* A slot whose open failed is free, and was nobody else's.
LEMMA NotOpenedStep ==
  ASSUME Files!FileAssumption, IInv, NEW t \in Thread, Files!NotOpened(t)
  PROVE  IInv'
<1> USE DEF Files!FileAssumption, IInv
<1> DEFINE f == call[t].fd
<1>1. Files!Opening(t) /\ redirects = <<>>
  BY DEF Files!NotOpened, Files!Opening, CallsApart
<1>2. f \in Files!Fd \ Files!Std /\ f > 2 /\ held[f] = {}
  <2>1. f \in Files!Fd \ Files!Std /\ held[f] = {}
    BY <1>1, CallTyped DEF CallsApart
  <2> QED BY <2>1 DEF Files!Fd, Files!Std
<1>3. /\ fdList' = [fdList EXCEPT ![f] = Files!Free]
      /\ call' = [call EXCEPT ![t] = Files!NoCall]
      /\ maxFd' = maxFd /\ redirects' = redirects /\ held' = held
  BY <1>2 DEF Files!NotOpened, Files!OpenFailed, Files!Released
<1>4. /\ \A u \in Thread \ {t} : call'[u] = call[u]
      /\ call'[t] = Files!NoCall /\ Files!NoCall.op = "none" /\ Files!NoCall \in CallKind
  BY <1>3 DEF Typed, Files!NoCall, CallKind
<1>5. \A u \in Thread \ {t} : Files!Opening(u) => call[u].fd # f
  BY <1>1 DEF Files!NoneLost
<1>6. /\ \A g \in Files!Fd : g # f => fdList'[g] = fdList[g]
      /\ fdList'[f].dev = None
      /\ Files!Free \in [dev : Device \cup FileSystem \cup {None}, flags : SUBSET Files!Flag]
  BY <1>2, <1>3 DEF Typed, Files!Free
<1>7. Typed'
  BY <1>2, <1>3, <1>4, <1>6 DEF Typed
<1> HIDE DEF f
<1>8. StdKept'
  BY <1>1, <1>2, <1>3, <1>6 DEF StdKept, Files!Fd, Files!Std
<1>9. Files!HighWater'
  BY <1>3, <1>6 DEF Files!HighWater
<1>10. CallsApart'
  <2>1. ASSUME NEW u \in Thread \ {t}, Files!Opening(u) PROVE call[u].fd # f /\ call[u].fd \in Files!Fd
    BY <1>5, <2>1, CallTyped
  <2> QED BY <1>1, <1>3, <1>4, <1>6, <2>1 DEF CallsApart, Files!Opening
<1>11. ModeKept'
  BY <1>2, <1>3, <1>6 DEF ModeKept
<1>12. Files!NoneLost'
  BY <1>1, <1>2, <1>3, <1>4, <1>5, <1>6 DEF Files!NoneLost, Files!Opening, f
<1> QED
  BY <1>7, <1>8, <1>9, <1>10, <1>11, <1>12

\* A closed slot is free, and no call was in the middle of using it.
LEMMA CloseStep ==
  ASSUME Files!FileAssumption, IInv, NEW t \in Thread, NEW f \in Used, Files!Close(t, f)
  PROVE  IInv'
<1> USE DEF Files!FileAssumption, IInv
<1>1. f \in Files!Fd /\ held[f] # {} /\ redirects = <<>>
  BY DEF Files!Close, Files!Usable, Files!Idle, Files!Fd
<1>2. /\ fdList' = Files!Released(f)
      /\ held' = [held EXCEPT ![f] = {}]
      /\ call' = call /\ maxFd' = maxFd /\ redirects' = redirects
      /\ \A u \in Thread : call[u].op # "none" => call[u].fd # f
  BY DEF Files!Close
<1>3. /\ \A g \in Files!Fd : g # f \/ f \in Files!Std => fdList'[g] = fdList[g]
      /\ f \notin Files!Std => fdList'[f].dev = None
      /\ fdList' \in [Files!Fd -> [dev : Device \cup FileSystem \cup {None}, flags : SUBSET Files!Flag]]
  BY <1>1, <1>2 DEF Typed, Files!Free, Files!Released, Files!Fd, Files!Std
<1>4. held'[f] = {} /\ \A g \in Files!Fd : g # f => held'[g] = held[g]
  BY <1>1, <1>2 DEF Typed
<1>5. Typed'
  BY <1>1, <1>2, <1>3 DEF Typed
<1>6. StdKept'
  BY <1>1, <1>2, <1>3 DEF StdKept, Files!Fd, Files!Std
<1>7. Files!HighWater'
  BY <1>2, <1>3 DEF Files!HighWater
<1>8. CallsApart'
  <2>1. ASSUME NEW u \in Thread, call[u].op # "none" PROVE call[u].fd # f /\ call[u].fd \in Files!Fd
    <3>1. call[u].fd # f
      BY <1>2, <2>1
    <3>2. call[u].fd \in Files!Fd
      BY <2>1, CallTyped
    <3> QED BY <3>1, <3>2
  <2>2. ASSUME NEW u \in Thread, call[u].op # "none"
        PROVE  fdList'[call[u].fd] = fdList[call[u].fd] /\ held'[call[u].fd] = held[call[u].fd]
    BY <1>3, <1>4, <2>1, <2>2
  <2> QED BY <1>1, <1>2, <2>2 DEF CallsApart, Files!Opening
<1>9. ModeKept'
  BY <1>1, <1>3, <1>4 DEF ModeKept
<1>10. Files!NoneLost'
  <2>1. \A u \in Thread : Files!Opening(u) => call[u].fd # f
    BY <1>2 DEF Files!Opening
  <2> QED BY <1>1, <1>2, <1>3, <1>4, <2>1 DEF Files!NoneLost, Files!Opening
<1> QED
  BY <1>5, <1>6, <1>7, <1>8, <1>9, <1>10

\* Steps that change the flags of a descriptor in a program's hands, and not
\* its access.
LEMMA FlagsStep ==
  ASSUME Files!FileAssumption, IInv, NEW f \in Files!Fd, NEW flags \in SUBSET Files!Flag,
         held[f] # {}, Mode(flags) = held[f],
         fdList' = [fdList EXCEPT ![f].flags = flags],
         maxFd' = maxFd, redirects' = redirects, held' = held,
         call' \in [Thread -> CallKind],
         \A u \in Thread : call'[u] = call[u] \/ (call[u].op = "fcntl" /\ call'[u] = Files!NoCall)
  PROVE  IInv'
<1> USE DEF Files!FileAssumption, IInv
<1>1. /\ \A g \in Files!Fd : g # f => fdList'[g] = fdList[g]
      /\ \A g \in Files!Fd : fdList'[g].dev = fdList[g].dev
      /\ fdList'[f].flags = flags
      /\ fdList' \in [Files!Fd -> [dev : Device \cup FileSystem \cup {None}, flags : SUBSET Files!Flag]]
  BY DEF Typed
<1>2. Typed'
  BY <1>1 DEF Typed
<1>3. StdKept' /\ Files!HighWater'
  BY <1>1 DEF StdKept, Files!HighWater, Files!Fd, Files!Std
<1>4. ASSUME NEW u \in Thread PROVE /\ Files!Opening(u)' <=> Files!Opening(u)
                                    /\ Files!Opening(u) => call'[u] = call[u]
  BY DEF Files!Opening, Files!NoCall
<1>5. CallsApart'
  <2>1. ASSUME NEW u \in Thread, Files!Opening(u) PROVE call[u].fd # f /\ call[u].fd \in Files!Fd
    <3>1. held[call[u].fd] = {}
      BY <2>1 DEF CallsApart
    <3>2. call[u].fd \in Files!Fd
      BY <2>1, CallTyped
    <3> QED BY <3>1, <3>2
  <2>2. ASSUME NEW u \in Thread, Files!Opening(u) PROVE fdList'[call[u].fd] = fdList[call[u].fd]
    BY <1>1, <2>1, <2>2
  <2>3. Files!NoCall.op = "none"
    BY DEF Files!NoCall
  <2>4. ASSUME NEW u \in Thread, call'[u] = Files!NoCall
        PROVE  call'[u].op = "none"
    BY <2>3, <2>4
  <2>5. ASSUME NEW u \in Thread, call'[u] = call[u]
        PROVE  /\ call'[u].op # "none" => redirects' = <<>>
               /\ Files!Opening(u)' => held'[call'[u].fd] = {}
               /\ call'[u].op = "opening" => Mode(fdList'[call'[u].fd].flags) = call'[u].access
               /\ call'[u].op = "fcntl" => /\ held'[call'[u].fd] # {}
                                           /\ Mode(call'[u].flags) = held'[call'[u].fd]
    BY <2>2, <2>5 DEF CallsApart, Files!Opening
  <2> QED BY <2>4, <2>5 DEF CallsApart, Files!Opening
<1>6. ModeKept'
  BY <1>1 DEF ModeKept
<1>7. Files!NoneLost'
  BY <1>1, <1>4, SameSlots
<1> QED
  BY <1>2, <1>3, <1>5, <1>6, <1>7

\* A lock and its release change one flag.
LEMMA FdLockStep ==
  ASSUME Files!FileAssumption, IInv, NEW t \in Thread, NEW f \in Used,
         Files!FdLock(t, f) \/ Files!FdUnlock(t, f)
  PROVE  IInv'
<1> DEFINE flags == IF Files!FdLock(t, f) THEN fdList[f].flags \cup {"excl"}
                                    ELSE fdList[f].flags \ {"excl"}
<1>1. f \in Files!Fd /\ held[f] # {}
  BY DEF Files!FdLock, Files!FdUnlock, Files!Usable, Files!Fd, Files!FileAssumption
<1>2. /\ fdList' = [fdList EXCEPT ![f].flags = flags]
      /\ maxFd' = maxFd /\ redirects' = redirects /\ held' = held /\ call' = call
  BY DEF Files!FdLock, Files!FdUnlock
<1>3. flags \in SUBSET Files!Flag /\ Mode(flags) = Mode(fdList[f].flags)
  BY <1>1 DEF IInv, Typed, Files!Flag, Mode
<1>4. Mode(fdList[f].flags) = held[f]
  BY <1>1 DEF IInv, ModeKept
<1> HIDE DEF flags
<1> QED
  BY <1>1, <1>2, <1>3, <1>4, FlagsStep DEF IInv, Typed

\* fcntl writes flags with the access that it read.
LEMMA FcntlWritesStep ==
  ASSUME Files!FileAssumption, IInv, NEW t \in Thread, Files!FcntlWrites(t)
  PROVE  IInv'
<1> USE DEF IInv
<1>1. call[t].op = "fcntl"
  BY DEF Files!FcntlWrites
<1>2. /\ call[t].fd \in Files!Fd /\ call[t].flags \in SUBSET Files!Flag
      /\ held[call[t].fd] # {} /\ Mode(call[t].flags) = held[call[t].fd]
  BY <1>1, CallTyped DEF CallsApart
<1>3. /\ fdList' = [fdList EXCEPT ![call[t].fd].flags = call[t].flags]
      /\ call' = [call EXCEPT ![t] = Files!NoCall]
      /\ maxFd' = maxFd /\ redirects' = redirects /\ held' = held
  BY DEF Files!FcntlWrites
<1>4. /\ call' \in [Thread -> CallKind]
      /\ \A u \in Thread : call'[u] = call[u] \/ (call[u].op = "fcntl" /\ call'[u] = Files!NoCall)
  BY <1>1, <1>3 DEF Typed, CallKind
<1> QED
  BY <1>2, <1>3, <1>4, FlagsStep

\* fcntl reads the access of a descriptor in the program's hands.
LEMMA FcntlReadsStep ==
  ASSUME Files!FileAssumption, IInv, NEW t \in Thread, NEW f \in Used, NEW new \in Arg,
         Files!FcntlReads(t, f, new)
  PROVE  IInv'
<1> USE DEF Files!FileAssumption, IInv
<1> DEFINE flags == (fdList[f].flags \ Files!FcntlMask) \cup (new \cap Files!FcntlMask)
           beingRead == [op |-> "fcntl", fd |-> f, flags |-> flags]
<1>1. f \in Files!Fd /\ held[f] # {} /\ redirects = <<>> /\ call[t] = Files!NoCall
  BY DEF Files!FcntlReads, Files!Usable, Files!Idle, Files!Fd
<1>2. /\ call' = [call EXCEPT ![t] = beingRead]
      /\ fdList' = fdList /\ maxFd' = maxFd /\ redirects' = redirects /\ held' = held
  BY DEF Files!FcntlReads
<1>3. flags \in SUBSET Files!Flag /\ Mode(flags) = Mode(fdList[f].flags)
  BY <1>1 DEF Typed, Files!Flag, Mode, Files!FcntlMask
<1>4. Mode(flags) = held[f]
  BY <1>1, <1>3 DEF ModeKept
<1> HIDE DEF flags
<1>5. beingRead \in CallKind
  BY <1>1, <1>3 DEF CallKind
<1>6. /\ \A u \in Thread \ {t} : call'[u] = call[u]
      /\ call'[t].op = "fcntl" /\ call'[t].fd = f /\ call'[t].flags = flags
  BY <1>2 DEF Typed
<1>7. ASSUME NEW u \in Thread PROVE /\ Files!Opening(u)' <=> Files!Opening(u)
                                    /\ Files!Opening(u) => call'[u].fd = call[u].fd
  BY <1>1, <1>6 DEF Files!Opening, Files!NoCall
<1>8. Typed'
  BY <1>2, <1>5 DEF Typed
<1>9. StdKept' /\ ModeKept' /\ Files!HighWater'
  BY <1>2 DEF StdKept, ModeKept, Files!HighWater
<1>10. CallsApart'
  BY <1>1, <1>2, <1>4, <1>6 DEF CallsApart, Files!Opening
<1>11. Files!NoneLost'
  BY <1>2, <1>7, SameSlots
<1> QED
  BY <1>8, <1>9, <1>10, <1>11

\* Every step keeps the invariant.
LEMMA NextInv == Files!FileAssumption /\ IInv /\ [Files!Next]_(Files!vars) => IInv'
<1> SUFFICES ASSUME Files!FileAssumption, IInv, [Files!Next]_(Files!vars) PROVE IInv'
  OBVIOUS
<1>1. CASE \E dev \in Device : Files!Redirect(dev)
  BY <1>1, RedirectStep
<1>2. CASE Files!RedirectFails
  BY <1>2, RedirectFailsStep
<1>3. ASSUME NEW t \in Thread,
             \/ \E dev \in Device \cup FileSystem, access \in Asked : Files!Allocate(t, dev, access)
             \/ Files!Checked(t) \/ Files!Opened(t) \/ Files!NotOpened(t) \/ Files!FcntlWrites(t)
      PROVE  IInv'
  BY <1>3, AllocateStep, CheckedStep, OpenedStep, NotOpenedStep, FcntlWritesStep
<1>4. ASSUME NEW t \in Thread, NEW f \in Used,
             \/ Files!Close(t, f) \/ Files!FdLock(t, f) \/ Files!FdUnlock(t, f)
             \/ \E new \in Arg : Files!FcntlReads(t, f, new)
      PROVE  IInv'
  BY <1>4, CloseStep, FdLockStep, FcntlReadsStep
<1>5. CASE UNCHANGED Files!vars
  BY <1>5 DEF Files!vars, IInv, Typed, StdKept, CallsApart, ModeKept, Files!HighWater,
              Files!NoneLost, Files!Opening
<1> QED
  BY <1>1, <1>2, <1>3, <1>4, <1>5 DEF Files!Next

\* The invariant holds throughout.
LEMMA Invariance == ASSUME Files!FileAssumption PROVE Files!Spec => []IInv
<1>1. Files!Init => IInv
  BY InitInv
<1>2. IInv /\ [Files!Next]_(Files!vars) => IInv'
  BY NextInv
<1> QED
  BY <1>1, <1>2, PTL DEF Files!Spec

-----------------------------------------------------------------------------
\* In any table, with any number of threads, whichever step of an open fails:
\* no slot is lost and none given twice, and fcntl leaves the access alone.
THEOREM SlotsKept ==
  ASSUME Files!FileAssumption
  PROVE  Files!Spec => [](Files!NoneLost /\ Files!AccessKept)
<1>1. IInv => Files!NoneLost /\ Files!AccessKept
  BY DEF IInv, Typed, ModeKept, Mode, Files!AccessKept, Files!MayRead, Files!MayWrite, Files!Access
<1> QED
  BY <1>1, Invariance, PTL

\* The mark from below which a lock is searched for covers every slot in use,
\* so that an open finds the lock there is.
THEOREM LocksRespected ==
  ASSUME Files!FileAssumption
  PROVE  Files!Spec => Files!LockedOut
<1> DEFINE Looks(t) == call[t].op = "open" /\ call'[t].op = "opening"
           Respects(t) ==
             \A g \in Files!Fd \ {call[t].fd} :
               fdList[g].dev = fdList[call[t].fd].dev /\ fdList[g].dev \in Device
                 => "excl" \notin fdList[g].flags
<1>1. ASSUME IInv, Files!Next, NEW t \in Thread, Looks(t) PROVE Files!Checked(t)
  <2> USE DEF IInv
  <2>1. call \in [Thread -> CallKind]
    BY <1>1 DEF Typed
  <2>2. CASE Files!RedirectFails \/ \E dev \in Device : Files!Redirect(dev)
    BY <1>1, <2>2 DEF Files!RedirectFails, Files!Redirect
  <2>3. ASSUME NEW u \in Thread, u # t,
               \/ \E dev \in Device \cup FileSystem, access \in Asked : Files!Allocate(u, dev, access)
               \/ Files!Checked(u) \/ Files!Opened(u) \/ Files!NotOpened(u) \/ Files!FcntlWrites(u)
        PROVE  call'[t] = call[t]
    BY <2>1, <2>3 DEF Files!Allocate, Files!Checked, Files!Opened, Files!NotOpened,
                      Files!FcntlWrites
  <2>4. ASSUME \/ \E dev \in Device \cup FileSystem, access \in Asked : Files!Allocate(t, dev, access)
               \/ Files!Opened(t) \/ Files!NotOpened(t) \/ Files!FcntlWrites(t)
        PROVE  FALSE
    BY <1>1, <2>1, <2>4 DEF Files!Allocate, Files!Idle, Files!Opened, Files!NotOpened,
                            Files!FcntlWrites, Files!NoCall
  <2>5. ASSUME NEW u \in Thread, NEW f \in Used,
               \/ Files!Close(u, f) \/ Files!FdLock(u, f) \/ Files!FdUnlock(u, f)
               \/ \E new \in Arg : Files!FcntlReads(u, f, new)
        PROVE  call'[t] = call[t] \/ call'[t].op = "fcntl"
    BY <2>1, <2>5 DEF Files!Close, Files!FdLock, Files!FdUnlock, Files!FcntlReads
  <2> QED
    BY <1>1, <2>2, <2>3, <2>4, <2>5 DEF Files!Next
<1>2. ASSUME IInv, NEW t \in Thread, Files!Checked(t) PROVE Respects(t)
  <2> SUFFICES ASSUME NEW g \in Files!Fd \ {call[t].fd},
                      fdList[g].dev = fdList[call[t].fd].dev, fdList[g].dev \in Device
               PROVE  "excl" \notin fdList[g].flags
    OBVIOUS
  <2> USE DEF IInv
  <2>1. Files!Opening(t)
    BY <1>2 DEF Files!Checked, Files!Opening
  <2>2. call[t].fd \in Files!Fd \ Files!Std
    BY <1>2, <2>1, CallTyped
  <2>3. fdList[call[t].fd].dev # None
    BY DEF Files!FileAssumption
  <2>4. call[t].fd <= maxFd
    BY <1>2, <2>2, <2>3 DEF Files!HighWater
  <2>5. g <= maxFd
    <3>1. CASE g \in Files!Std
      BY <1>2, <2>2, <2>4, <3>1 DEF Typed, Files!Fd, Files!Std, Files!FileAssumption
    <3>2. CASE g \notin Files!Std
      BY <1>2, <2>3, <3>2 DEF Files!HighWater
    <3> QED BY <3>1, <3>2
  <2>6. ~Files!FileLocked(call[t].fd)
    BY <1>2 DEF Files!Checked
  <2>7. g \in 0 .. maxFd
    BY <1>2, <2>5 DEF Typed, Files!Fd, Files!FileAssumption
  <2> QED
    BY <2>6, <2>7 DEF Files!FileLocked
<1>3. IInv /\ [Files!Next]_(Files!vars) => [\A t \in Thread : Looks(t) => Respects(t)]_(Files!vars)
  BY <1>1, <1>2
<1> QED
  BY <1>3, Invariance, PTL DEF Files!Spec, Files!LockedOut

-----------------------------------------------------------------------------
\* Heap.tla.

\* Rounding up to a word.
LEMMA AlignedUp ==
  ASSUME NEW kind, Heaps(kind)!HeapAssumption, NEW a \in Nat
  PROVE  /\ Heaps(kind)!Aligned(a) \in Nat /\ Heaps(kind)!Aligned(a) % HeapWord = 0
         /\ a <= Heaps(kind)!Aligned(a)
         /\ a % HeapWord = 0 => Heaps(kind)!Aligned(a) = a
         /\ \A m \in Nat : m % HeapWord = 0 /\ a <= m => Heaps(kind)!Aligned(a) <= m
<1> DEFINE W == HeapWord
           x == a + W - 1
           q == x \div W
<1>1. W \in Nat \ {0} /\ x \in Int
  BY SMT DEF Heaps!HeapAssumption
<1>2. q \in Int /\ x % W \in 0 .. W - 1 /\ x = (W * q) + (x % W)
  BY <1>1, Division
<1>3. Heaps(kind)!Aligned(a) = W * q
  BY <1>1, <1>2, SMT DEF Heaps!Aligned
<1>4. (W * q) % W = 0
  <2>1. (W * q) + 0 = W * q /\ 0 \in 0 .. W - 1
    BY <1>1, <1>2, SMT
  <2>2. QED
    BY <1>1, <1>2, <2>1, Quotient
<1> HIDE DEF q
<1>5. ASSUME NEW m \in Nat, m % W = 0, a <= m
      PROVE  W * q <= m
  <2>1. m \div W \in Int /\ m = W * (m \div W)
    BY <1>1, <1>5, Division, SMT
  <2> DEFINE k == m \div W
  <2>2. k \in Int /\ m = W * k
    BY <2>1
  <2> HIDE DEF k
  <2>3. W * q <= W * k + W - 1
    BY <1>1, <1>2, <1>5, <2>2, SMT
  <2>4. q <= k
    BY <1>1, <1>2, <2>2, <2>3, SMT
  <2>5. QED
    BY <1>1, <1>2, <2>2, <2>4, SMT
<1>6. W * q \in Nat /\ a <= W * q
  BY <1>1, <1>2, SMT
<1>7. a % W = 0 => W * q = a
  <2>1. a % W = 0 => W * q <= a
    BY <1>5
  <2>2. \A m \in Nat : m <= a /\ a <= m => m = a
    BY SMT
  <2>3. QED
    BY <1>6, <2>1, <2>2
<1>8. QED
  BY <1>3, <1>4, <1>5, <1>6, <1>7

\* The blocks that are left when the heap shrinks are the first ones.
Block == [base : Nat, end : Nat]
Ascending(bs) ==
  \A i, j \in 1 .. Len(bs) : i < j => bs[i].end <= bs[j].base
AllBelow(bs, end) ==
  \A i \in 1 .. Len(bs) : /\ bs[i].base % HeapWord = 0 /\ bs[i].base >= Start
                          /\ bs[i].base < bs[i].end /\ bs[i].end <= end

LEMMA CutExists ==
  ASSUME NEW bs \in Seq(Block), NEW end \in Int, NEW top, Ascending(bs), AllBelow(bs, top)
  PROVE  \E n \in 0 .. Len(bs) : /\ \A j \in 1 .. n : bs[j].base < end
                                 /\ \A j \in n + 1 .. Len(bs) : bs[j].base >= end
<1> DEFINE After == {j \in 1 .. Len(bs) : bs[j].base >= end}
<1>1. Len(bs) \in Nat /\ \A j \in 1 .. Len(bs) : bs[j].base \in Nat /\ bs[j].end \in Nat
  <2>1. Len(bs) \in Nat /\ \A j \in 1 .. Len(bs) : bs[j] \in Block
    BY SMT
  <2>2. QED
    BY <2>1 DEF Block
<1>2. CASE After = {}
  <2>1. \A j \in 1 .. Len(bs) : bs[j].base < end
    BY <1>1, <1>2, SMT
  <2>2. Len(bs) \in 0 .. Len(bs) /\ ~ \E j \in Len(bs) + 1 .. Len(bs) : TRUE
    BY <1>1, SMT
  <2>3. QED
    BY <2>1, <2>2
<1>3. CASE After # {}
  <2>1. PICK m \in After : \A j \in After : m <= j
    <3>1. After \in SUBSET Nat
      BY <1>1, SMT
    <3> HIDE DEF After
    <3>2. QED
      BY <1>3, <3>1, SmallestOf, Zenon
  <2>2. m - 1 \in 0 .. Len(bs) /\ m \in 1 .. Len(bs)
    BY <1>1, <2>1, SMT
  <2>3. \A j \in 1 .. m - 1 : bs[j].base < end
    BY <1>1, <2>1, <2>2, SMT
  <2>4. \A j \in (m - 1) + 1 .. Len(bs) : bs[j].base >= end
    <3>1. TAKE j \in (m - 1) + 1 .. Len(bs)
    <3>2. j = m \/ (j \in 1 .. Len(bs) /\ m < j)
      BY <1>1, <2>2, SMT
    <3>3. CASE j = m
      BY <2>1, <3>3
    <3>4. CASE j \in 1 .. Len(bs) /\ m < j
      <4>1. bs[m].end <= bs[j].base
        BY <2>2, <3>4 DEF Ascending
      <4>2. bs[m].base < bs[m].end
        BY <2>2 DEF AllBelow
      <4>3. bs[m].base >= end
        BY <2>1
      <4>4. QED
        BY <1>1, <2>2, <3>4, <4>1, <4>2, <4>3, SMT
    <3>5. QED
      BY <3>2, <3>3, <3>4
  <2>5. QED
    BY <2>2, <2>3, <2>4
<1>4. QED
  BY <1>2, <1>3

LEMMA KeptApart ==
  ASSUME NEW kind, NEW bs \in Seq(Block), NEW end \in Nat, NEW top, Ascending(bs), AllBelow(bs, top)
  PROVE  /\ Heaps(kind)!Kept(bs, end) \in Seq(Block)
         /\ Ascending(Heaps(kind)!Kept(bs, end)) /\ AllBelow(Heaps(kind)!Kept(bs, end), end)
<1> DEFINE Cut(i) == /\ \A j \in 1 .. i : bs[j].base < end
                     /\ \A j \in i + 1 .. Len(bs) : bs[j].base >= end
           n == CHOOSE i \in 0 .. Len(bs) : Cut(i)
           ks == [j \in 1 .. n |-> [bs[j] EXCEPT !.end = Heaps(kind)!MinOf(@, end)]]
<1>1. n \in 0 .. Len(bs) /\ \A j \in 1 .. n : bs[j].base < end
  <2>1. \E i \in 0 .. Len(bs) : Cut(i)
    <3>1. end \in Int
      OBVIOUS
    <3>2. QED
      BY <3>1, CutExists, Zenon
  <2>2. n \in 0 .. Len(bs) /\ Cut(n)
    BY <2>1, Zenon
  <2>3. QED
    BY <2>2
<1>2. Heaps(kind)!Kept(bs, end) = ks
  BY Zenon DEF Heaps!Kept
<1> HIDE DEF n
<1>3. n \in Nat /\ \A j \in 1 .. n : j \in 1 .. Len(bs) /\ bs[j] \in Block
  BY <1>1, SMT
<1>4. \A j \in 1 .. n : /\ bs[j].base \in Nat /\ bs[j].end \in Nat
                        /\ bs[j].base < bs[j].end /\ bs[j].base < end
  BY <1>1, <1>3 DEF Block, AllBelow
<1>5. \A j \in 1 .. n : /\ ks[j].base = bs[j].base /\ ks[j].end = Heaps(kind)!MinOf(bs[j].end, end)
                        /\ ks[j].end \in Nat /\ ks[j].end <= end
                        /\ ks[j].end <= bs[j].end /\ bs[j].base < ks[j].end
                        /\ ks[j] \in Block
  <2>1. TAKE j \in 1 .. n
  <2>2. ks[j] = [bs[j] EXCEPT !.end = Heaps(kind)!MinOf(bs[j].end, end)]
    OBVIOUS
  <2>3. Heaps(kind)!MinOf(bs[j].end, end) \in Nat /\ Heaps(kind)!MinOf(bs[j].end, end) <= end
        /\ Heaps(kind)!MinOf(bs[j].end, end) <= bs[j].end /\ bs[j].base < Heaps(kind)!MinOf(bs[j].end, end)
    BY <1>4, SMT DEF Heaps!MinOf
  <2>4. bs[j] \in Block
    BY <1>3
  <2>5. QED
    BY <2>2, <2>3, <2>4 DEF Block
<1>6. ks \in [1 .. n -> Block]
  BY <1>5
<1>7. ks \in Seq(Block) /\ Len(ks) = n
  BY <1>3, <1>6, SMT
<1> HIDE DEF ks
<1>8. AllBelow(ks, end)
  BY <1>3, <1>5, <1>7 DEF AllBelow
<1>9. Ascending(ks)
  <2>1. ASSUME NEW i \in 1 .. n, NEW j \in 1 .. n, i < j
        PROVE  ks[i].end <= ks[j].base
    <3>1. bs[i].end <= bs[j].base /\ bs[i].end \in Nat /\ bs[j].base \in Nat
      BY <1>3, <1>4, <2>1 DEF Ascending
    <3>2. ks[i].end <= bs[i].end /\ ks[i].end \in Nat /\ ks[j].base = bs[j].base
      BY <1>5, <2>1 DEF Block
    <3>3. QED
      BY <3>1, <3>2, SMT
  <2>2. QED
    BY <1>7, <2>1 DEF Ascending
<1>10. QED
  BY <1>2, <1>7, <1>8, <1>9

\* The limit of the heap's stack is kept in one place: in the register, or on
\* the exceptions' stack where it was saved.
OneLimit == oldLimit = NoLimit <=> stackLimit # ExceptionLimit

HeapInv(kind) == /\ Heaps(kind)!TypeOK /\ OneLimit /\ blocks \in Seq(Block)
           /\ AllBelow(blocks, heapEnd) /\ Ascending(blocks)

LEMMA HeapStarts ==
  ASSUME NEW kind, Heaps(kind)!HeapAssumption, Heaps(kind)!Init
  PROVE  HeapInv(kind)
<1>1. Start \in Start .. Limit /\ Limit \in Start .. Limit
  BY SMT DEF Heaps!HeapAssumption
<1>2. blocks = <<>> /\ blocks \in Seq(Block) /\ ~ \E i \in 1 .. Len(blocks) : TRUE
  BY SMT DEF Heaps!Init
<1>3. Start # ExceptionLimit
  BY DEF Heaps!HeapAssumption
<1>4. QED
  BY <1>1, <1>2, <1>3 DEF Heaps!Init, Heaps!TypeOK, HeapInv, OneLimit, AllBelow, Ascending

LEMMA HeapBounds ==
  ASSUME NEW kind, Heaps(kind)!HeapAssumption, Heaps(kind)!TypeOK
  PROVE  /\ heapEnd \in Nat /\ Heaps(kind)!Aligned(heapEnd) \in Start .. Limit
         /\ heapEnd <= Heaps(kind)!Aligned(heapEnd) /\ Heaps(kind)!Aligned(heapEnd) % HeapWord = 0
<1>1. /\ Start \in Nat /\ Limit \in Nat /\ Limit % HeapWord = 0
      /\ heapEnd \in Nat /\ Start <= heapEnd /\ heapEnd <= Limit
  BY SMT DEF Heaps!HeapAssumption, Heaps!TypeOK
<1>2. /\ Heaps(kind)!Aligned(heapEnd) \in Nat /\ heapEnd <= Heaps(kind)!Aligned(heapEnd)
      /\ Heaps(kind)!Aligned(heapEnd) <= Limit /\ Heaps(kind)!Aligned(heapEnd) % HeapWord = 0
  BY <1>1, AlignedUp
<1>3. QED
  BY <1>1, <1>2, SMT

LEMMA SbrkKeeps ==
  ASSUME NEW kind, Heaps(kind)!HeapAssumption, HeapInv(kind), NEW n \in Int, Heaps(kind)!Sbrk(n)
  PROVE  HeapInv(kind)'
<1> DEFINE prev == Heaps(kind)!Aligned(heapEnd)
           end  == prev + n
<1>1. /\ heapEnd \in Nat /\ prev \in Start .. Limit /\ heapEnd <= prev
      /\ prev % HeapWord = 0 /\ Start \in Nat /\ Limit \in Nat
  BY HeapBounds DEF HeapInv, Heaps!HeapAssumption
<1> HIDE DEF prev
<1>2. /\ heapEnd' = end /\ end \in Start .. Limit
      /\ blocks' = IF n > 0 THEN Append(blocks, [base |-> prev, end |-> end])
                            ELSE Heaps(kind)!Kept(blocks, end)
      /\ reported' \in BOOLEAN
      /\ stackLimit' = Heaps(kind)!Moved(stackLimit, prev, end)
      /\ oldLimit' = Heaps(kind)!Moved(oldLimit, prev, end)
      /\ sp' = sp
  <2>1. Heaps(kind)!Fits(end) /\ end \in Int
    BY <1>1 DEF Heaps!Sbrk, prev
  <2>2. end \in Start .. Limit
    BY <1>1, <2>1, SMT DEF Heaps!Fits
  <2>3. QED
    BY <2>2 DEF Heaps!Sbrk, prev
<1> HIDE DEF end
<1>3. Heaps(kind)!TypeOK' /\ OneLimit'
  <2>1. Heaps(kind)!TypeOK'
    BY <1>2 DEF HeapInv, Heaps!TypeOK, Heaps!Moved
  <2>2. prev # NoLimit /\ prev # ExceptionLimit /\ end # NoLimit /\ end # ExceptionLimit
    <3>1. \A m \in Start .. Limit : m \in Nat
      BY <1>1, SMT
    <3>2. QED
      BY <1>1, <1>2, <3>1 DEF Heaps!HeapAssumption
  <2>3. OneLimit'
    BY <1>2, <2>2 DEF HeapInv, OneLimit, Heaps!Moved
  <2>4. QED
    BY <2>1, <2>3
<1>4. CASE n > 0
  <2> DEFINE b == [base |-> prev, end |-> end]
             bs == Append(blocks, b)
             len == Len(blocks)
  <2>1. prev \in Nat /\ end \in Nat /\ prev < end /\ Start <= prev
    BY <1>1, <1>2, <1>4, SMT DEF end
  <2>2. b \in Block /\ b.base = prev /\ b.end = end
    BY <2>1 DEF Block
  <2>3. blocks \in Seq(Block) /\ len \in Nat
    BY SMT DEF HeapInv
  <2> HIDE DEF b
  <2>4. /\ bs \in Seq(Block) /\ Len(bs) = len + 1 /\ bs[len + 1] = b
        /\ \A i \in 1 .. len : bs[i] = blocks[i] /\ blocks[i] \in Block
    BY <2>2, <2>3, SMT
  <2> HIDE DEF bs, len
  <2>5. \A i \in 1 .. len + 1 : i = len + 1 \/ i \in 1 .. len
    BY <2>3, SMT
  <2>6. \A i \in 1 .. len : /\ blocks[i].base \in Nat /\ blocks[i].end \in Nat
                            /\ blocks[i].end <= prev /\ blocks[i].end <= end
    <3>1. \A i \in 1 .. len : /\ blocks[i].base \in Nat /\ blocks[i].end \in Nat
                              /\ blocks[i].end <= heapEnd
      BY <2>4 DEF HeapInv, AllBelow, Block, len
    <3>2. QED
      BY <1>1, <2>1, <3>1, SMT
  <2>7. AllBelow(bs, end)
    <3>1. ASSUME NEW i \in 1 .. len + 1
          PROVE  /\ bs[i].base % HeapWord = 0 /\ bs[i].base >= Start
                 /\ bs[i].base < bs[i].end /\ bs[i].end <= end
      <4>1. CASE i = len + 1
        <5>1. end <= end /\ prev >= Start
          BY <1>1, <2>1, SMT
        <5>2. QED
          BY <1>1, <2>1, <2>2, <2>4, <4>1, <5>1
      <4>2. CASE i \in 1 .. len
        <5>1. /\ blocks[i].base % HeapWord = 0 /\ blocks[i].base >= Start
              /\ blocks[i].base < blocks[i].end
          BY <4>2 DEF HeapInv, AllBelow, len
        <5>2. QED
          BY <2>4, <2>6, <4>2, <5>1
      <4>3. QED
        BY <2>5, <4>1, <4>2
    <3>2. QED
      BY <2>4, <3>1 DEF AllBelow
  <2>8. Ascending(bs)
    <3>1. ASSUME NEW i \in 1 .. len + 1, NEW j \in 1 .. len + 1, i < j
          PROVE  bs[i].end <= bs[j].base
      <4>1. i \in 1 .. len
        BY <2>3, <3>1, SMT
      <4>2. CASE j = len + 1
        BY <2>2, <2>4, <2>6, <4>1, <4>2
      <4>3. CASE j \in 1 .. len
        BY <2>4, <3>1, <4>1, <4>3 DEF HeapInv, Ascending, len
      <4>4. QED
        BY <2>5, <4>2, <4>3
    <3>2. QED
      BY <2>4, <3>1 DEF Ascending
  <2>9. blocks' = bs
    BY <1>2, <1>4 DEF bs, b
  <2>10. QED
    BY <1>2, <1>3, <2>4, <2>7, <2>8, <2>9 DEF HeapInv
<1>5. CASE ~(n > 0)
  <2>1. blocks' = Heaps(kind)!Kept(blocks, end) /\ end \in Nat
    BY <1>1, <1>2, <1>5, SMT
  <2>2. /\ Heaps(kind)!Kept(blocks, end) \in Seq(Block) /\ Ascending(Heaps(kind)!Kept(blocks, end))
        /\ AllBelow(Heaps(kind)!Kept(blocks, end), end)
    BY <2>1, KeptApart DEF HeapInv
  <2>3. QED
    BY <1>2, <1>3, <2>1, <2>2 DEF HeapInv
<1>6. QED
  BY <1>4, <1>5

LEMMA HeapStep ==
  ASSUME NEW kind, Heaps(kind)!HeapAssumption, HeapInv(kind), [Heaps(kind)!Next]_(Heaps(kind)!vars)
  PROVE  HeapInv(kind)'
<1>1. \A n \in GrowOf(kind) : n \in Int
  BY SMT DEF Heaps!HeapAssumption
<1>2. \A n \in ShrinkOf(kind) : -n \in Int
  BY SMT DEF Heaps!HeapAssumption
<1>3. ASSUME NEW n \in GrowOf(kind), Heaps(kind)!SbrkRefused(n)
      PROVE  HeapInv(kind)'
  <2>1. /\ heapEnd' = Heaps(kind)!Aligned(heapEnd) /\ heapEnd' \in Start .. Limit
        /\ heapEnd \in Nat /\ heapEnd' \in Nat /\ heapEnd <= heapEnd'
    <3>1. heapEnd' = Heaps(kind)!Aligned(heapEnd)
      BY <1>3 DEF Heaps!SbrkRefused
    <3>2. \A m \in Start .. Limit : m \in Nat
      BY SMT DEF Heaps!HeapAssumption
    <3>3. QED
      BY <3>1, <3>2, HeapBounds DEF HeapInv
  <2>2. UNCHANGED <<sp, stackLimit, oldLimit, reported, blocks>>
    BY <1>3 DEF Heaps!SbrkRefused
  <2>3. Heaps(kind)!TypeOK'
    BY <2>1, <2>2 DEF HeapInv, Heaps!TypeOK
  <2>4. AllBelow(blocks, heapEnd')
    <3>1. \A i \in 1 .. Len(blocks) : blocks[i] \in Block
      BY SMT DEF HeapInv
    <3>2. \A i \in 1 .. Len(blocks) : blocks[i].end \in Nat /\ blocks[i].end <= heapEnd
      BY <3>1 DEF HeapInv, AllBelow, Block
    <3>3. \A i \in 1 .. Len(blocks) : blocks[i].end <= heapEnd'
      BY <2>1, <3>2, SMT
    <3>4. QED
      BY <3>3 DEF HeapInv, AllBelow
  <2>5. QED
    BY <2>2, <2>3, <2>4 DEF HeapInv, OneLimit
<1>4. ASSUME NEW to \in Start .. Limit, Heaps(kind)!UseStack(to)
      PROVE  HeapInv(kind)'
  BY <1>4 DEF Heaps!UseStack, HeapInv, OneLimit, Heaps!TypeOK, AllBelow, Ascending
<1>5. ASSUME Heaps(kind)!Enter \/ Heaps(kind)!Leave
      PROVE  HeapInv(kind)'
  <2>1. UNCHANGED <<heapEnd, sp, reported, blocks>>
    BY <1>5 DEF Heaps!Enter, Heaps!Leave
  <2>2. ExceptionLimit \notin Start .. Limit /\ NoLimit \notin Start .. Limit
    <3>1. \A m \in Start .. Limit : m \in Nat
      BY SMT DEF Heaps!HeapAssumption
    <3>2. QED
      BY <3>1 DEF Heaps!HeapAssumption
  <2>3. /\ stackLimit' \in (Start .. Limit) \cup {ExceptionLimit}
        /\ oldLimit' \in (Start .. Limit) \cup {NoLimit}
        /\ OneLimit'
    BY <1>5, <2>2 DEF Heaps!Enter, Heaps!Leave, HeapInv, Heaps!TypeOK, OneLimit
  <2>4. QED
    BY <2>1, <2>3 DEF HeapInv, Heaps!TypeOK, AllBelow, Ascending
<1>6. CASE UNCHANGED Heaps(kind)!vars
  BY <1>6 DEF Heaps!vars, HeapInv, OneLimit, Heaps!TypeOK, AllBelow, Ascending
<1>7. QED
  BY <1>1, <1>2, <1>3, <1>4, <1>5, <1>6, SbrkKeeps DEF Heaps!Next

LEMMA ApartInside ==
  ASSUME NEW kind, HeapInv(kind)
  PROVE  Heaps(kind)!BlocksApart
<1>1. Len(blocks) \in Nat
  BY SMT DEF HeapInv
<1>2. \A i \in 1 .. Len(blocks) : i > 1 => i - 1 \in 1 .. Len(blocks) /\ i - 1 < i
  BY <1>1, SMT
<1>3. QED
  BY <1>2 DEF HeapInv, AllBelow, Ascending, Heaps!BlocksApart

\* Whatever sizes are asked for and given back, on either stack: blocks start
\* on words, lie below the end of the heap and do not overlap.
THEOREM BlocksApartHolds ==
  ASSUME NEW kind, Heaps(kind)!HeapAssumption
  PROVE  Heaps(kind)!Spec => [](Heaps(kind)!TypeOK /\ Heaps(kind)!BlocksApart)
<1>1. Heaps(kind)!Init => HeapInv(kind)
  BY HeapStarts
<1>2. HeapInv(kind) /\ [Heaps(kind)!Next]_(Heaps(kind)!vars) => HeapInv(kind)'
  BY HeapStep
<1>3. HeapInv(kind) => Heaps(kind)!TypeOK /\ Heaps(kind)!BlocksApart
  BY ApartInside DEF HeapInv
<1>4. QED
  BY <1>1, <1>2, <1>3, PTL DEF Heaps!Spec

\* With sizes of whole words the limit is always the end of the heap.
WholeWords(kind) == \A n \in GrowOf(kind) \cup ShrinkOf(kind) : n % HeapWord = 0
LimitIsEnd == /\ heapEnd % HeapWord = 0
              /\ oldLimit = NoLimit => stackLimit = heapEnd
              /\ oldLimit # NoLimit => oldLimit = heapEnd

LEMMA SizesAreWords ==
  ASSUME NEW kind, Heaps(kind)!HeapAssumption, WholeWords(kind)
  PROVE  /\ \A n \in GrowOf(kind) : n \in Int /\ n % HeapWord = 0
         /\ \A n \in ShrinkOf(kind) : -n \in Int /\ (-n) % HeapWord = 0
<1>1. HeapWord \in Nat \ {0} /\ GrowOf(kind) \subseteq Nat /\ ShrinkOf(kind) \subseteq Nat
  BY DEF Heaps!HeapAssumption
<1>2. ASSUME NEW n \in ShrinkOf(kind) PROVE -n \in Int /\ (-n) % HeapWord = 0
  <2> DEFINE k == n \div HeapWord
  <2>1. k \in Int /\ n \in Nat /\ n = HeapWord * k
    <3>1. n \in Nat /\ n % HeapWord = 0
      BY <1>1, <1>2 DEF WholeWords
    <3>2. QED
      BY <1>1, <3>1, Division, SMT
  <2> HIDE DEF k
  <2> DEFINE m == -k
  <2>2. -n = (HeapWord * m) + 0 /\ m \in Int /\ 0 \in 0 .. HeapWord - 1 /\ -n \in Int
    BY <1>1, <2>1, SMT
  <2> HIDE DEF m
  <2>3. ((HeapWord * m) + 0) % HeapWord = 0
    BY <1>1, <2>2, Quotient
  <2>4. QED
    BY <2>2, <2>3
<1>3. QED
  BY <1>1, <1>2, SMT DEF WholeWords

LEMMA SumOfWords ==
  ASSUME NEW d \in Nat \ {0}, NEW a \in Int, NEW b \in Int, a % d = 0, b % d = 0
  PROVE  (a + b) % d = 0
<1> DEFINE j == a \div d
           k == b \div d
<1>1. j \in Int /\ k \in Int /\ a = d * j /\ b = d * k
  BY Division, SMT
<1> HIDE DEF j, k
<1>2. d * (j + k) = (d * j) + (d * k)
  BY <1>1, SMT
<1>3. a + b = (d * (j + k)) + 0 /\ j + k \in Int /\ 0 \in 0 .. d - 1
  BY <1>1, <1>2, SMT
<1>4. QED
  BY <1>3, Quotient

\* What sbrk does with whole words.
LEMMA SbrkOfWords ==
  ASSUME NEW kind, Heaps(kind)!HeapAssumption, Heaps(kind)!TypeOK, LimitIsEnd,
         NEW n \in Int, n % HeapWord = 0, Heaps(kind)!Sbrk(n)
  PROVE  /\ LimitIsEnd' /\ ~reported /\ UNCHANGED sp
         /\ heapEnd' \in Start .. Limit /\ heapEnd' = heapEnd + n
         /\ oldLimit = NoLimit => oldLimit' = NoLimit /\ (reported' <=> sp <= heapEnd')
         /\ oldLimit # NoLimit => reported' \/ heapEnd' < heapEnd
<1>1. heapEnd \in Nat /\ HeapWord \in Nat \ {0}
  BY HeapBounds DEF Heaps!HeapAssumption
<1>2. Heaps(kind)!Aligned(heapEnd) = heapEnd
  BY <1>1, AlignedUp DEF LimitIsEnd
<1>3. heapEnd' = heapEnd + n /\ heapEnd' % HeapWord = 0
  <2>1. heapEnd' = heapEnd + n
    BY <1>2 DEF Heaps!Sbrk
  <2>2. heapEnd \in Int /\ heapEnd % HeapWord = 0
    BY <1>1 DEF LimitIsEnd
  <2>3. (heapEnd + n) % HeapWord = 0
    BY <1>1, <2>2, SumOfWords
  <2>4. QED
    BY <2>1, <2>3
<1>4. heapEnd' \in Start .. Limit
  BY <1>1, <1>2, <1>3, SMT DEF Heaps!Sbrk, Heaps!Fits, Heaps!HeapAssumption
<1>5. heapEnd' # NoLimit /\ heapEnd # NoLimit
  BY <1>1, <1>4, SMT DEF Heaps!HeapAssumption
<1>6. /\ ~reported /\ sp' = sp
      /\ (reported' <=> \/ stackLimit = heapEnd /\ sp <= heapEnd'
                        \/ oldLimit = heapEnd /\ oldLimit <= heapEnd')
      /\ stackLimit' = IF stackLimit = heapEnd THEN heapEnd' ELSE stackLimit
      /\ oldLimit' = IF oldLimit = heapEnd THEN heapEnd' ELSE oldLimit
  BY <1>2 DEF Heaps!Sbrk, Heaps!OverflowSeen, Heaps!Moved
<1>7. oldLimit # NoLimit => reported' \/ heapEnd' < heapEnd
  <2>1. heapEnd \in Int /\ heapEnd' \in Int
    BY <1>1, <1>3, SMT
  <2>2. oldLimit # NoLimit => oldLimit = heapEnd
    BY DEF LimitIsEnd
  <2>3. heapEnd <= heapEnd' \/ heapEnd' < heapEnd
    BY <2>1, SMT
  <2>4. QED
    BY <1>6, <2>2, <2>3
<1>8. oldLimit = NoLimit => oldLimit' = NoLimit /\ (reported' <=> sp <= heapEnd')
  BY <1>5, <1>6 DEF LimitIsEnd
<1>9. LimitIsEnd'
  BY <1>3, <1>5, <1>6 DEF LimitIsEnd
<1>10. QED
  BY <1>3, <1>4, <1>6, <1>7, <1>8, <1>9

\* On one stack, the overflow reported is that of the blocks.
AlarmInv(kind) == oldLimit = NoLimit /\ Heaps(kind)!NoFalseAlarm
OverlapInv(kind) == LimitIsEnd /\ Heaps(kind)!NoOverlap

LEMMA OverlapStarts ==
  ASSUME NEW kind, Heaps(kind)!HeapAssumption, Heaps(kind)!Init
  PROVE  OverlapInv(kind) /\ AlarmInv(kind)
<1>1. Start % HeapWord = 0 /\ Start <= Limit
  BY SMT DEF Heaps!HeapAssumption
<1>2. QED
  BY <1>1 DEF Heaps!Init, OverlapInv, AlarmInv, LimitIsEnd, Heaps!NoOverlap, Heaps!NoFalseAlarm

LEMMA OverlapStep ==
  ASSUME NEW kind, Heaps(kind)!HeapAssumption, WholeWords(kind), HeapInv(kind), OverlapInv(kind),
         [Heaps(kind)!Next]_(Heaps(kind)!vars)
  PROVE  OverlapInv(kind)'
<1>1. Heaps(kind)!TypeOK /\ heapEnd \in Nat /\ sp \in Nat /\ Start \in Nat /\ Limit \in Nat
  BY SMT DEF HeapInv, Heaps!TypeOK, Heaps!HeapAssumption
<1>2. ASSUME NEW n \in Int, n % HeapWord = 0, Heaps(kind)!Sbrk(n)
      PROVE  OverlapInv(kind)'
  <2>1. /\ LimitIsEnd' /\ ~reported /\ sp' = sp
        /\ heapEnd' \in Start .. Limit
        /\ oldLimit = NoLimit => (reported' <=> sp <= heapEnd')
        /\ oldLimit # NoLimit => reported' \/ heapEnd' < heapEnd
    BY <1>1, <1>2, SbrkOfWords DEF OverlapInv
  <2>2. heapEnd <= sp /\ heapEnd' \in Nat
    BY <1>1, <2>1, SMT DEF OverlapInv, Heaps!NoOverlap
  <2>3. ~reported' => heapEnd' <= sp
    <3>1. CASE oldLimit = NoLimit
      <4>1. ~reported' => ~(sp <= heapEnd')
        BY <2>1, <3>1
      <4>2. ~(sp <= heapEnd') => heapEnd' <= sp
        BY <1>1, <2>2, SMT
      <4>3. QED
        BY <4>1, <4>2
    <3>2. CASE oldLimit # NoLimit
      <4>1. ~reported' => heapEnd' < heapEnd
        BY <2>1, <3>2
      <4>2. heapEnd' < heapEnd => heapEnd' <= sp
        BY <1>1, <2>2, SMT
      <4>3. QED
        BY <4>1, <4>2
    <3>3. QED
      BY <3>1, <3>2
  <2>4. QED
    BY <2>1, <2>3 DEF OverlapInv, Heaps!NoOverlap
<1>3. ASSUME NEW n \in GrowOf(kind), Heaps(kind)!SbrkRefused(n)
      PROVE  OverlapInv(kind)'
  <2>1. Heaps(kind)!Aligned(heapEnd) = heapEnd
    BY <1>1, AlignedUp DEF OverlapInv, LimitIsEnd
  <2>2. UNCHANGED Heaps(kind)!vars
    BY <1>3, <2>1 DEF Heaps!SbrkRefused, Heaps!vars
  <2>3. QED
    BY <2>2 DEF Heaps!vars, OverlapInv, LimitIsEnd, Heaps!NoOverlap
<1>4. ASSUME NEW to \in Start .. Limit, Heaps(kind)!UseStack(to)
      PROVE  OverlapInv(kind)'
  <2>1. /\ UNCHANGED <<heapEnd, stackLimit, oldLimit>> /\ sp' = to /\ to \in Nat
        /\ (reported' <=> to < heapEnd)
    <3>1. to \in Nat
      BY <1>1, SMT
    <3>2. stackLimit = heapEnd
      BY <1>4 DEF Heaps!UseStack, OverlapInv, LimitIsEnd
    <3>3. reported' <=> to < stackLimit
      BY <1>4, Zenon DEF Heaps!UseStack
    <3>4. QED
      BY <1>4, <3>1, <3>2, <3>3 DEF Heaps!UseStack
  <2>2. ~(to < heapEnd) => heapEnd <= to
    BY <1>1, <2>1, SMT
  <2>3. QED
    BY <2>1, <2>2 DEF OverlapInv, LimitIsEnd, Heaps!NoOverlap
<1>5. ASSUME Heaps(kind)!Enter \/ Heaps(kind)!Leave
      PROVE  OverlapInv(kind)'
  <2>1. heapEnd # NoLimit
    BY <1>1 DEF Heaps!HeapAssumption
  <2>2. QED
    BY <1>5, <2>1 DEF Heaps!Enter, Heaps!Leave, OverlapInv, LimitIsEnd, Heaps!NoOverlap
<1>6. CASE UNCHANGED Heaps(kind)!vars
  BY <1>6 DEF Heaps!vars, OverlapInv, LimitIsEnd, Heaps!NoOverlap
<1>7. QED
  BY <1>2, <1>3, <1>4, <1>5, <1>6, SizesAreWords DEF Heaps!Next

\* With sizes of whole words, heap and stack never grow over each other
\* without a report, on either stack.
THEOREM NoOverlapHolds ==
  ASSUME NEW kind, Heaps(kind)!HeapAssumption, WholeWords(kind)
  PROVE  Heaps(kind)!Spec => []Heaps(kind)!NoOverlap
<1>1. Heaps(kind)!Init => HeapInv(kind) /\ OverlapInv(kind)
  BY HeapStarts, OverlapStarts
<1>2. HeapInv(kind) /\ OverlapInv(kind) /\ [Heaps(kind)!Next]_(Heaps(kind)!vars) => HeapInv(kind)' /\ OverlapInv(kind)'
  BY HeapStep, OverlapStep
<1>3. OverlapInv(kind) => Heaps(kind)!NoOverlap
  BY DEF OverlapInv
<1>4. QED
  BY <1>1, <1>2, <1>3, PTL DEF Heaps!Spec

LEMMA AlarmStep ==
  ASSUME NEW kind, Heaps(kind)!HeapAssumption, WholeWords(kind), ~OwnStack(kind),
         HeapInv(kind), LimitIsEnd, AlarmInv(kind), [Heaps(kind)!Next]_(Heaps(kind)!vars)
  PROVE  AlarmInv(kind)'
<1>1. Heaps(kind)!TypeOK /\ oldLimit = NoLimit
  BY DEF HeapInv, AlarmInv
<1>2. ASSUME NEW n \in Int, n % HeapWord = 0, Heaps(kind)!Sbrk(n)
      PROVE  AlarmInv(kind)'
  <2>1. oldLimit' = NoLimit /\ (reported' <=> sp <= heapEnd') /\ sp' = sp
    BY <1>1, <1>2, SbrkOfWords
  <2>2. QED
    BY <2>1 DEF Heaps!NoFalseAlarm, AlarmInv
<1>3. ASSUME NEW n \in GrowOf(kind), Heaps(kind)!SbrkRefused(n)
      PROVE  AlarmInv(kind)'
  BY <1>3 DEF Heaps!SbrkRefused, Heaps!NoFalseAlarm, AlarmInv
<1>4. ASSUME NEW to \in Start .. Limit, Heaps(kind)!UseStack(to)
      PROVE  AlarmInv(kind)'
  <2>1. to \in Nat /\ heapEnd \in Nat
    BY <1>1, HeapBounds, SMT DEF Heaps!HeapAssumption
  <2>2. stackLimit = heapEnd /\ (reported' <=> to < stackLimit)
    BY <1>1, <1>4, Zenon DEF Heaps!UseStack, LimitIsEnd
  <2>3. to < heapEnd => to <= heapEnd
    BY <2>1, SMT
  <2>4. QED
    BY <1>1, <1>4, <2>2, <2>3 DEF Heaps!UseStack, Heaps!NoFalseAlarm, AlarmInv
<1>5. ~Heaps(kind)!Enter /\ ~Heaps(kind)!Leave
  BY <1>1 DEF Heaps!Enter, Heaps!Leave
<1>6. CASE UNCHANGED Heaps(kind)!vars
  BY <1>6 DEF Heaps!vars, Heaps!NoFalseAlarm, AlarmInv
<1>7. QED
  BY <1>2, <1>3, <1>4, <1>5, <1>6, SizesAreWords DEF Heaps!Next

\* Nor is an overflow reported that is none, where exceptions use the stack
\* of the program.
THEOREM NoFalseAlarmHolds ==
  ASSUME NEW kind, Heaps(kind)!HeapAssumption, WholeWords(kind), ~OwnStack(kind)
  PROVE  Heaps(kind)!Spec => []Heaps(kind)!NoFalseAlarm
<1> DEFINE Inv == HeapInv(kind) /\ OverlapInv(kind) /\ AlarmInv(kind)
<1>1. Heaps(kind)!Init => Inv
  BY HeapStarts, OverlapStarts
<1>2. Inv /\ [Heaps(kind)!Next]_(Heaps(kind)!vars) => Inv'
  BY HeapStep, OverlapStep, AlarmStep DEF OverlapInv
<1>3. Inv => Heaps(kind)!NoFalseAlarm
  BY DEF AlarmInv
<1> HIDE DEF Inv
<1>4. QED
  BY <1>1, <1>2, <1>3, PTL DEF Heaps!Spec

-----------------------------------------------------------------------------
\* Cache.tla.

LEMMA LineIs ==
  ASSUME Caches!CacheAssumption, NEW q \in Int, NEW r \in 0 .. LineBytes - 1
  PROVE  Caches!LineOf((LineBytes * q) + r) = q
  BY Quotient DEF Caches!CacheAssumption, Caches!LineOf

LEMMA LineAndPlace ==
  ASSUME Caches!CacheAssumption, NEW x \in Nat
  PROVE  /\ Caches!LineOf(x) \in Nat /\ x % LineBytes \in 0 .. LineBytes - 1
         /\ x = (LineBytes * Caches!LineOf(x)) + (x % LineBytes)
<1>1. LineBytes \in Nat \ {0}
  BY DEF Caches!CacheAssumption
<1>2. /\ x \div LineBytes \in Int /\ x % LineBytes \in 0 .. LineBytes - 1
      /\ x = (LineBytes * (x \div LineBytes)) + (x % LineBytes)
  BY <1>1, Division
<1> DEFINE q == x \div LineBytes
<1> HIDE DEF q
<1>3. ASSUME q \in Int, x = (LineBytes * q) + (x % LineBytes), x % LineBytes \in 0 .. LineBytes - 1
      PROVE  q \in Nat
  <2>1. q <= -1 => LineBytes * q <= -LineBytes
    BY <1>1, <1>3, SMT
  <2>2. QED
    BY <1>1, <1>3, <2>1, SMT
<1>4. q \in Nat
  BY <1>2, <1>3 DEF q
<1>5. QED
  BY <1>2, <1>4 DEF q, Caches!LineOf

\* A length rounded up to lines.
LEMMA InLines ==
  ASSUME Caches!CacheAssumption, NEW len \in Nat
  PROVE  LET n == (len + LineBytes - 1) \div LineBytes
         IN  n \in Nat /\ len <= LineBytes * n /\ Caches!Rounded(len) = n * LineBytes
             /\ (len > 0 => n > 0)
<1> DEFINE x == len + LineBytes - 1
           n == x \div LineBytes
<1>1. LineBytes \in Nat \ {0} /\ x \in Nat
  BY SMT DEF Caches!CacheAssumption
<1>2. n \in Nat /\ x % LineBytes \in 0 .. LineBytes - 1
      /\ x = (LineBytes * n) + (x % LineBytes)
  BY <1>1, LineAndPlace DEF Caches!LineOf
<1>3. Caches!Rounded(len) = n * LineBytes
  BY DEF Caches!Rounded
<1> HIDE DEF n
<1>4. len <= LineBytes * n
  BY <1>1, <1>2, SMT
<1>5. len > 0 => n > 0
  BY <1>1, <1>2, <1>4, SMT
<1>6. QED
  BY <1>2, <1>3, <1>4, <1>5 DEF n

\* The addresses that a loop over a region visits are in all of its lines.
LEMMA VisitedCovers ==
  ASSUME Caches!CacheAssumption, NEW start \in Nat, NEW len \in Nat,
         NEW b \in Nat, start <= b, b < start + len
  PROVE  Caches!LineOf(b) \in Caches!LinesOf(Caches!Visited(start, len))
<1> DEFINE n == (len + LineBytes - 1) \div LineBytes
           q == Caches!LineOf(start)
           s == start % LineBytes
           d == b - start
           k == Caches!LineOf(d)
           r == d % LineBytes
           At(i) == start + i * LineBytes
<1>1. LineBytes \in Nat \ {0} /\ d \in Nat /\ d < len
  BY SMT DEF Caches!CacheAssumption
<1>2. n \in Nat /\ len <= LineBytes * n
  BY InLines
<1>3. q \in Nat /\ s \in 0 .. LineBytes - 1 /\ start = (LineBytes * q) + s
  BY LineAndPlace
<1>4. k \in Nat /\ r \in 0 .. LineBytes - 1 /\ d = (LineBytes * k) + r
  BY <1>1, LineAndPlace
<1>5. Caches!Visited(start, len) = {At(i) : i \in 0 .. n - 1} \cup (IF s = 0 THEN {} ELSE {At(n)})
  BY DEF Caches!Visited
<1>6. b = start + d
  BY <1>1, SMT
<1> HIDE DEF n, q, s, d, k, r
<1>7. k < n
  <2>1. LineBytes * k < LineBytes * n
    BY <1>1, <1>2, <1>4, SMT
  <2>2. QED
    BY <1>1, <1>2, <1>4, <2>1, SMT
<1>8. ASSUME NEW i \in Nat
      PROVE  At(i) = (LineBytes * (q + i)) + s /\ Caches!LineOf(At(i)) = q + i
  <2>1. LineBytes * (q + i) = (LineBytes * q) + (i * LineBytes)
    BY <1>1, <1>3, SMT
  <2> DEFINE c == i * LineBytes
             e == LineBytes * q
             f == LineBytes * (q + i)
  <2>2. c \in Int /\ e \in Int /\ f \in Int /\ f = e + c /\ start = e + s
        /\ s \in Int /\ start \in Int
    BY <1>1, <1>3, <2>1, SMT
  <2> HIDE DEF c, e, f
  <2>3. start + c = f + s
    BY <2>2, SMT
  <2>4. At(i) = (LineBytes * (q + i)) + s
    BY <2>3 DEF c, f
  <2>5. q + i \in Int
    BY <1>3, SMT
  <2>6. QED
    BY <1>3, <2>4, <2>5, LineIs
<1>9. b = (LineBytes * (q + k)) + (s + r)
  <2>1. b = start + ((LineBytes * k) + r)
    BY <1>4, <1>6
  <2>2. LineBytes * (q + k) = (LineBytes * q) + (LineBytes * k)
    BY <1>1, <1>3, <1>4, SMT
  <2> DEFINE c == LineBytes * k
             e == LineBytes * q
             f == LineBytes * (q + k)
  <2>3. c \in Int /\ e \in Int /\ f \in Int /\ f = e + c /\ start = e + s /\ b = start + (c + r)
    BY <1>1, <1>3, <1>4, <2>1, <2>2, SMT
  <2> HIDE DEF c, e, f
  <2>4. b = f + (s + r)
    BY <1>3, <1>4, <2>3, SMT
  <2>5. QED
    BY <2>4 DEF f
<1>10. ASSUME NEW i \in Nat, At(i) \in Caches!Visited(start, len), Caches!LineOf(b) = q + i
       PROVE  Caches!LineOf(b) \in Caches!LinesOf(Caches!Visited(start, len))
  BY <1>8, <1>10 DEF Caches!LinesOf
<1>11. CASE s + r < LineBytes
  <2>1. s + r \in 0 .. LineBytes - 1 /\ q + k \in Int
    BY <1>1, <1>3, <1>4, <1>11, SMT
  <2>2. Caches!LineOf(b) = q + k
    BY <1>9, <2>1, LineIs
  <2>3. k \in 0 .. n - 1
    BY <1>2, <1>4, <1>7, SMT
  <2>4. At(k) \in Caches!Visited(start, len)
    BY <1>5, <2>3
  <2>5. QED
    BY <1>4, <1>10, <2>2, <2>4
<1>12. CASE ~(s + r < LineBytes)
  <2> DEFINE i == k + 1
             t == s + r - LineBytes
  <2>1. i \in Nat /\ t \in 0 .. LineBytes - 1 /\ q + i \in Int /\ s # 0
    BY <1>1, <1>3, <1>4, <1>12, SMT
  <2>2. b = (LineBytes * (q + i)) + t
    <3>1. LineBytes * (q + i) = (LineBytes * (q + k)) + LineBytes
      BY <1>1, <1>3, <1>4, SMT
    <3> DEFINE f == LineBytes * (q + k)
               g == LineBytes * (q + i)
    <3>2. f \in Int /\ g \in Int /\ g = f + LineBytes /\ b = f + (s + r)
      BY <1>1, <1>3, <1>4, <1>9, <3>1, SMT
    <3> HIDE DEF f, g
    <3>3. b = g + t
      BY <1>1, <1>3, <1>4, <3>2, SMT
    <3>4. QED
      BY <3>3 DEF g
  <2>3. Caches!LineOf(b) = q + i
    <3> HIDE DEF i, t
    <3> QED BY <2>1, <2>2, LineIs
  <2>4. i \in 0 .. n - 1 \/ i = n
    BY <1>2, <1>4, <1>7, SMT
  <2>5. At(i) \in Caches!Visited(start, len)
    <3> HIDE DEF i
    <3> QED BY <1>5, <2>1, <2>4
  <2>6. QED
    <3> HIDE DEF i
    <3> QED BY <1>10, <2>1, <2>3, <2>5
<1>13. QED
  BY <1>11, <1>12

\* The block, its lines and the bytes that go with it.
BlockAt(line, nbytes) ==
  /\ line \in Caches!Lines /\ nbytes \in 1 .. LineBytes + 1
  /\ Caches!Rounded(nbytes) <= (MemLines - line) * LineBytes
  /\ block = <<line * LineBytes, nbytes>>

CacheTyped ==
  /\ mem \in [Caches!Lines -> 0 .. MaxStores] /\ written \in [Caches!Lines -> 0 .. MaxStores]
  /\ stores \in 0 .. MaxStores
  /\ dcache \in [DOMAIN dcache -> 0 .. MaxStores] /\ DOMAIN dcache \subseteq Caches!Lines
  /\ icache \in [DOMAIN icache -> 0 .. MaxStores] /\ DOMAIN icache \subseteq Caches!Lines
  /\ block # NoBlock => \E line, nbytes \in Nat : BlockAt(line, nbytes)
  /\ loading \in {"copy", "flushed", "loaded"}

OneInPlace ==
  \A k, l \in DOMAIN dcache : k % DSets = l % DSets => k = l

\* No line of a block is cached, those it shares with nothing else included.
TakenOut == Caches!LinesOf(Caches!Taken) \cap DOMAIN dcache = {}

CacheInv == CacheTyped /\ OneInPlace /\ Caches!NoStoreLost /\ TakenOut

\* A block takes whole lines: its bytes are those of its lines.
LEMMA WholeLines ==
  ASSUME Caches!CacheAssumption, NEW line \in Nat, NEW nbytes \in Nat, BlockAt(line, nbytes)
  PROVE  /\ Caches!Taken = Caches!Region(line * LineBytes, Caches!Rounded(nbytes))
         /\ line * LineBytes \in Nat /\ Caches!Rounded(nbytes) \in Nat
         /\ block[1] = line * LineBytes /\ block[2] = nbytes
         /\ Caches!LineOf(block[1]) = line
         /\ line \in Caches!LinesOf(Caches!Taken)
         /\ Caches!LinesOf(Caches!Taken) \subseteq Caches!Lines
         /\ Caches!Region(block[1], block[2]) \subseteq Caches!Taken
         /\ \A b \in Caches!Bytes : Caches!LineOf(b) \in Caches!LinesOf(Caches!Taken) => b \in Caches!Taken
<1> DEFINE L == LineBytes
           n == (nbytes + L - 1) \div L
           base == L * line
<1>1. L \in Nat \ {0} /\ MemLines \in Nat \ {0} /\ line < MemLines /\ nbytes > 0
  BY SMT DEF Caches!CacheAssumption, BlockAt, Caches!Lines
<1>2. n \in Nat /\ n > 0 /\ nbytes <= L * n /\ Caches!Rounded(nbytes) = n * L
  BY <1>1, InLines
<1>3. block = <<line * L, nbytes>>
  BY DEF BlockAt
<1>4. line * L = base /\ base \in Nat /\ n * L = L * n /\ L * n \in Nat
  BY <1>1, <1>2, SMT
<1>5. block # NoBlock
  BY <1>3, <1>4 DEF Caches!CacheAssumption
<1>6. /\ Caches!Taken = Caches!Region(base, L * n)
      /\ block[1] = base /\ block[2] = nbytes
  BY <1>2, <1>3, <1>4, <1>5 DEF Caches!Taken
<1> HIDE DEF n
<1>7. Caches!LineOf(base) = line
  <2>1. base = (LineBytes * line) + 0 /\ 0 \in 0 .. LineBytes - 1 /\ line \in Int
    BY <1>1, <1>4, SMT
  <2>2. QED
    BY <2>1, LineIs
<1>8. L * n <= (MemLines - line) * L
  BY <1>2, <1>4 DEF BlockAt
<1>9. n <= MemLines - line
  <2>1. (MemLines - line) * L = L * (MemLines - line)
    BY <1>1, SMT
  <2>2. L * n <= L * (MemLines - line)
    BY <1>8, <2>1
  <2>3. QED
    BY <1>1, <1>2, <2>2, SMT
<1>10. MemLines * LineBytes = L * MemLines /\ L * line < L * MemLines
  BY <1>1, SMT
<1>11. \A b \in Caches!Bytes : b \in Nat /\ b < L * MemLines
  <2>1. L * MemLines \in Nat
    BY <1>1, SMT
  <2>2. QED
    BY <1>10, <2>1, SMT DEF Caches!Bytes
<1>12. \A b \in Nat : b < L * MemLines => b \in Caches!Bytes
  <2>1. L * MemLines \in Nat
    BY <1>1, SMT
  <2>2. QED
    BY <1>10, <2>1, SMT DEF Caches!Bytes
<1>13. ASSUME NEW b \in Caches!Bytes
       PROVE  /\ b \in Caches!Taken => Caches!LineOf(b) \in line .. line + n - 1
              /\ Caches!LineOf(b) \in line .. line + n - 1 => b \in Caches!Taken
  <2> DEFINE q == Caches!LineOf(b)
             r == b % L
  <2>1. q \in Nat /\ r \in 0 .. L - 1 /\ b = (L * q) + r /\ b \in Nat
    BY <1>11, LineAndPlace
  <2> HIDE DEF q, r
  <2>2. L * (line + n) = base + L * n
    BY <1>1, <1>2, SMT
  <2>3. ASSUME b \in Caches!Taken
        PROVE  q \in line .. line + n - 1
    <3>1. base <= b /\ b < base + L * n
      BY <1>6, <2>3 DEF Caches!Region
    <3>2. L * line <= (L * q) + r /\ (L * q) + r < L * (line + n)
      BY <2>1, <2>2, <3>1
    <3>3. line <= q
      BY <1>1, <2>1, <3>2, SMT
    <3>4. q < line + n
      BY <1>1, <1>2, <2>1, <3>2, SMT
    <3>5. QED
      BY <1>2, <2>1, <3>3, <3>4, SMT
  <2>4. ASSUME q \in line .. line + n - 1
        PROVE  b \in Caches!Taken
    <3>1. line <= q /\ q + 1 <= line + n
      BY <1>2, <2>1, <2>4, SMT
    <3>2. L * line <= L * q
      BY <1>1, <2>1, <3>1, SMT
    <3>3. L * (q + 1) <= L * (line + n)
      BY <1>1, <1>2, <2>1, <3>1, SMT
    <3>4. L * (q + 1) = (L * q) + L
      BY <1>1, <2>1, SMT
    <3> DEFINE c == L * q
               e == L * (line + n)
    <3>5. c \in Int /\ e \in Int /\ base <= c /\ c + L <= e /\ b = c + r
      BY <1>1, <1>2, <2>1, <3>2, <3>3, <3>4, SMT
    <3> HIDE DEF c, e, base
    <3>6. base <= b /\ b < e
      BY <1>1, <1>4, <2>1, <3>5, SMT
    <3>7. base <= b /\ b < base + L * n
      BY <2>2, <3>6 DEF e
    <3>8. QED
      BY <1>6, <3>7 DEF Caches!Region
  <2>5. QED
    BY <2>3, <2>4 DEF q
<1>14. base \in Caches!Bytes
  BY <1>4, <1>10, <1>12
<1>15. line \in line .. line + n - 1 /\ line .. line + n - 1 \subseteq Caches!Lines
  <2>1. Caches!Lines = 0 .. MemLines - 1
    BY DEF Caches!Lines
  <2>2. QED
    BY <1>1, <1>2, <1>9, <2>1, SMT
<1>16. base \in Caches!Taken
  BY <1>7, <1>13, <1>14, <1>15
<1>17. Caches!Taken \subseteq Caches!Bytes
  BY <1>6 DEF Caches!Region
<1>18. \A l \in Caches!LinesOf(Caches!Taken) : l \in line .. line + n - 1
  BY <1>13, <1>17 DEF Caches!LinesOf
<1>19. line \in Caches!LinesOf(Caches!Taken) /\ Caches!LinesOf(Caches!Taken) \subseteq Caches!Lines
  BY <1>7, <1>15, <1>16, <1>18 DEF Caches!LinesOf
<1>20. \A b \in Caches!Bytes : Caches!LineOf(b) \in Caches!LinesOf(Caches!Taken) => b \in Caches!Taken
  BY <1>13, <1>18
<1>21. Caches!Region(block[1], block[2]) \subseteq Caches!Taken
  <2> HIDE DEF base
  <2>1. ASSUME NEW b \in Caches!Bytes, base <= b, b < base + nbytes
        PROVE  b < base + L * n
    <3> DEFINE c == L * n
    <3>1. c \in Int /\ nbytes <= c
      BY <1>2, <1>4
    <3> HIDE DEF c
    <3>2. b < base + c
      BY <1>4, <1>11, <2>1, <3>1, SMT
    <3>3. QED
      BY <3>2 DEF c
  <2>2. QED
    BY <1>6, <2>1 DEF Caches!Region
<1>22. QED
  BY <1>2, <1>3, <1>4, <1>6, <1>7, <1>19, <1>20, <1>21

-----------------------------------------------------------------------------
\* A byte is in a line of memory.
LEMMA ByteInLine ==
  ASSUME Caches!CacheAssumption, NEW b \in Caches!Bytes
  PROVE  Caches!LineOf(b) \in Caches!Lines
<1> DEFINE q == Caches!LineOf(b)
           t == LineBytes * MemLines
<1>1. LineBytes \in Nat \ {0} /\ MemLines \in Nat \ {0} /\ MemLines * LineBytes = t /\ t \in Nat
  BY SMT DEF Caches!CacheAssumption
<1> HIDE DEF t
<1>2. b \in Nat /\ b < t
  BY <1>1, SMT DEF Caches!Bytes
<1>3. q \in Nat /\ b % LineBytes \in 0 .. LineBytes - 1 /\ b = (LineBytes * q) + (b % LineBytes)
  BY <1>2, LineAndPlace
<1> HIDE DEF q
<1>4. LineBytes * q < LineBytes * MemLines
  BY <1>1, <1>2, <1>3, SMT DEF t
<1>5. q < MemLines
  BY <1>1, <1>3, <1>4, SMT
<1>6. QED
  BY <1>1, <1>3, <1>5, SMT DEF q, Caches!Lines

\* Lines that are written back and dropped leave the others as they were.
LEMMA Cleaned ==
  ASSUME CacheInv, NEW ls, mem' = Caches!WrittenBack(ls), dcache' = Caches!Drop(dcache, ls),
         UNCHANGED <<written, stores>>
  PROVE  /\ mem' \in [Caches!Lines -> 0 .. MaxStores]
         /\ dcache' \in [DOMAIN dcache' -> 0 .. MaxStores]
         /\ DOMAIN dcache' = DOMAIN dcache \ ls
         /\ OneInPlace' /\ Caches!NoStoreLost'
         /\ \A l \in ls \cap Caches!Lines : mem'[l] = written[l]
<1>1. /\ mem \in [Caches!Lines -> 0 .. MaxStores]
      /\ dcache \in [DOMAIN dcache -> 0 .. MaxStores] /\ DOMAIN dcache \subseteq Caches!Lines
  BY DEF CacheInv, CacheTyped
<1>2. /\ DOMAIN dcache' = DOMAIN dcache \ ls
      /\ \A l \in DOMAIN dcache' : dcache'[l] = dcache[l]
      /\ dcache' = [l \in DOMAIN dcache' |-> dcache[l]]
  BY DEF Caches!Drop
<1>3. \A l \in Caches!Lines : mem'[l] = IF l \in ls \cap DOMAIN dcache THEN dcache[l] ELSE mem[l]
  BY DEF Caches!WrittenBack
<1>4. mem' \in [Caches!Lines -> 0 .. MaxStores]
  BY <1>1 DEF Caches!WrittenBack
<1>5. dcache' \in [DOMAIN dcache' -> 0 .. MaxStores]
  BY <1>1, <1>2
<1>6. OneInPlace'
  BY <1>2 DEF CacheInv, OneInPlace
<1>7. Caches!NoStoreLost'
  BY <1>1, <1>2, <1>3 DEF CacheInv, Caches!NoStoreLost, Caches!Lines
<1>8. \A l \in ls \cap Caches!Lines : mem'[l] = written[l]
  BY <1>3 DEF CacheInv, Caches!NoStoreLost
<1> QED BY <1>2, <1>4, <1>5, <1>6, <1>7, <1>8

\* Filling a line writes back the one in its place.
LEMMA Filled ==
  ASSUME CacheInv, NEW l \in Caches!Lines, NEW v \in 0 .. MaxStores, Caches!Fill(l, v),
         written' = [written EXCEPT ![l] = v]
  PROVE  /\ mem' \in [Caches!Lines -> 0 .. MaxStores]
         /\ written' \in [Caches!Lines -> 0 .. MaxStores]
         /\ dcache' \in [DOMAIN dcache' -> 0 .. MaxStores]
         /\ DOMAIN dcache' \subseteq DOMAIN dcache \cup {l}
         /\ OneInPlace' /\ Caches!NoStoreLost'
<1> DEFINE gone == Caches!Evicted(l)
<1>1. /\ mem \in [Caches!Lines -> 0 .. MaxStores] /\ written \in [Caches!Lines -> 0 .. MaxStores]
      /\ dcache \in [DOMAIN dcache -> 0 .. MaxStores] /\ DOMAIN dcache \subseteq Caches!Lines
  BY DEF CacheInv, CacheTyped
<1>2. gone = {k \in DOMAIN dcache : k # l /\ k % DSets = l % DSets}
  BY DEF Caches!Evicted
<1>3. /\ mem' = Caches!WrittenBack(gone)
      /\ dcache' = [k \in (DOMAIN dcache \ gone) \cup {l} |-> IF k = l THEN v ELSE dcache[k]]
  BY DEF Caches!Fill
<1> HIDE DEF gone
<1>4. /\ DOMAIN dcache' = (DOMAIN dcache \ gone) \cup {l} /\ dcache'[l] = v
      /\ \A k \in DOMAIN dcache' : k # l => dcache'[k] = dcache[k]
  BY <1>3
<1>5. \A k \in Caches!Lines : mem'[k] = IF k \in gone \cap DOMAIN dcache THEN dcache[k] ELSE mem[k]
  BY <1>3 DEF Caches!WrittenBack
<1>6. /\ written'[l] = v
      /\ \A k \in Caches!Lines : k # l => written'[k] = written[k]
  BY <1>1
<1>7. mem' \in [Caches!Lines -> 0 .. MaxStores]
  BY <1>1, <1>3 DEF Caches!WrittenBack
<1>8. dcache' \in [DOMAIN dcache' -> 0 .. MaxStores]
  BY <1>1, <1>3
<1>9. OneInPlace'
  BY <1>2, <1>4 DEF CacheInv, OneInPlace
<1>10. Caches!NoStoreLost'
  <2>1. ASSUME NEW k \in Caches!Lines
        PROVE  written'[k] = IF k \in DOMAIN dcache' THEN dcache'[k] ELSE mem'[k]
    <3>1. CASE k = l
      BY <1>4, <1>6, <3>1
    <3>2. CASE k # l
      BY <1>2, <1>4, <1>5, <1>6, <3>2 DEF CacheInv, Caches!NoStoreLost
    <3>3. QED
      BY <3>1, <3>2
  <2>2. QED
    BY <2>1 DEF Caches!NoStoreLost, Caches!Lines
<1>11. QED
  BY <1>1, <1>4, <1>7, <1>8, <1>9, <1>10

LEMMA RegionLines ==
  ASSUME Caches!CacheAssumption, NEW start \in Nat, NEW len \in Nat
  PROVE  Caches!LinesOf(Caches!Region(start, len)) \subseteq Caches!LinesOf(Caches!Visited(start, len))
<1>1. \A b \in Caches!Bytes : b \in Nat
  BY SMT DEF Caches!Bytes
<1>2. ASSUME NEW b \in Caches!Region(start, len)
      PROVE  Caches!LineOf(b) \in Caches!LinesOf(Caches!Visited(start, len))
  BY <1>1, VisitedCovers DEF Caches!Region
<1>3. QED
  BY <1>2 DEF Caches!LinesOf

LEMMA CacheStarts ==
  ASSUME Caches!CacheAssumption, Caches!Init
  PROVE  CacheInv
<1>1. 0 \in 0 .. MaxStores
  BY SMT DEF Caches!CacheAssumption
<1>2. DOMAIN Caches!Empty = {} /\ Caches!Empty \in [DOMAIN Caches!Empty -> 0 .. MaxStores]
  BY DEF Caches!Empty
<1>3. CacheTyped
  BY <1>1, <1>2 DEF Caches!Init, CacheTyped
<1>4. Caches!NoStoreLost
  BY <1>2 DEF Caches!Init, Caches!NoStoreLost
<1>5. OneInPlace /\ TakenOut
  BY <1>2 DEF Caches!Init, OneInPlace, TakenOut
<1>6. QED
  BY <1>3, <1>4, <1>5 DEF CacheInv

LEMMA CacheStep ==
  ASSUME Caches!CacheAssumption, CacheInv, [Caches!Next]_(Caches!vars)
  PROVE  CacheInv'
<1>1. MaxStores \in Nat /\ LineBytes \in Nat \ {0}
  BY DEF Caches!CacheAssumption
<1>2. ASSUME block # NoBlock
      PROVE  \E line, nbytes \in Nat : BlockAt(line, nbytes)
  BY <1>2 DEF CacheInv, CacheTyped
<1>3. ASSUME NEW ls, mem' = Caches!WrittenBack(ls), dcache' = Caches!Drop(dcache, ls),
             UNCHANGED <<written, stores, block>>, icache' = icache,
             loading' \in {"copy", "flushed", "loaded"}
      PROVE  CacheInv'
  <2>1. /\ mem' \in [Caches!Lines -> 0 .. MaxStores]
        /\ dcache' \in [DOMAIN dcache' -> 0 .. MaxStores]
        /\ DOMAIN dcache' = DOMAIN dcache \ ls
        /\ OneInPlace' /\ Caches!NoStoreLost'
    BY <1>3, Cleaned
  <2>2. CacheTyped'
    BY <1>3, <2>1 DEF CacheInv, CacheTyped, BlockAt
  <2>3. TakenOut'
    BY <1>3, <2>1 DEF CacheInv, TakenOut, Caches!Taken
  <2>4. QED
    BY <2>1, <2>2, <2>3 DEF CacheInv
<1>4. ASSUME NEW b \in Caches!Bytes, Caches!Store(b)
      PROVE  CacheInv'
  <2> DEFINE l == Caches!LineOf(b)
             v == stores + 1
  <2>1. l \in Caches!Lines /\ v \in 0 .. MaxStores
    <3>1. stores \in 0 .. MaxStores /\ stores < MaxStores
      BY <1>4 DEF CacheInv, CacheTyped, Caches!Store
    <3>2. QED
      BY <1>1, <3>1, ByteInLine, SMT
  <2>2. Caches!Fill(l, v) /\ written' = [written EXCEPT ![l] = v] /\ stores' = v
        /\ UNCHANGED <<icache, block, loading>> /\ b \notin Caches!Taken
    BY <1>4 DEF Caches!Store
  <2> HIDE DEF l, v
  <2>3. /\ mem' \in [Caches!Lines -> 0 .. MaxStores] /\ written' \in [Caches!Lines -> 0 .. MaxStores]
        /\ dcache' \in [DOMAIN dcache' -> 0 .. MaxStores]
        /\ DOMAIN dcache' \subseteq DOMAIN dcache \cup {l}
        /\ OneInPlace' /\ Caches!NoStoreLost'
    BY <2>1, <2>2, Filled
  <2>4. CacheTyped'
    BY <2>1, <2>2, <2>3 DEF CacheInv, CacheTyped, BlockAt
  <2>5. l \notin Caches!LinesOf(Caches!Taken)
    <3>1. CASE block = NoBlock
      BY <3>1 DEF Caches!Taken, Caches!LinesOf
    <3>2. CASE block # NoBlock
      <4>1. PICK line \in Nat, nbytes \in Nat : BlockAt(line, nbytes)
        BY <1>2, <3>2
      <4>2. Caches!LineOf(b) \in Caches!LinesOf(Caches!Taken) => b \in Caches!Taken
        BY <4>1, WholeLines
      <4>3. QED
        BY <2>2, <4>2 DEF l
    <3>3. QED
      BY <3>1, <3>2
  <2>6. Caches!Taken' = Caches!Taken /\ Caches!LinesOf(Caches!Taken)' = Caches!LinesOf(Caches!Taken)
    BY <2>2 DEF Caches!Taken, Caches!LinesOf
  <2>7. TakenOut'
    BY <2>3, <2>5, <2>6 DEF CacheInv, TakenOut
  <2>8. QED
    BY <2>3, <2>4, <2>7 DEF CacheInv
<1>5. ASSUME Caches!StoreUncached
      PROVE  CacheInv'
  <2> DEFINE l == Caches!LineOf(block[1])
             v == stores + 1
  <2>1. v \in 0 .. MaxStores
    <3>1. stores \in 0 .. MaxStores /\ stores < MaxStores
      BY <1>5 DEF CacheInv, CacheTyped, Caches!StoreUncached
    <3>2. QED
      BY <1>1, <3>1, SMT
  <2>2. l \in Caches!Lines /\ l \notin DOMAIN dcache
    <3>1. PICK line \in Nat, nbytes \in Nat : BlockAt(line, nbytes)
      BY <1>2, <1>5 DEF Caches!StoreUncached
    <3>2. l \in Caches!LinesOf(Caches!Taken) /\ Caches!LinesOf(Caches!Taken) \subseteq Caches!Lines
      BY <3>1, WholeLines
    <3>3. QED
      BY <3>2 DEF CacheInv, TakenOut
  <2>3. /\ written' = [written EXCEPT ![l] = v] /\ mem' = [mem EXCEPT ![l] = v]
        /\ stores' = v /\ UNCHANGED <<dcache, icache, block, loading>>
    BY <1>5 DEF Caches!StoreUncached
  <2> HIDE DEF l, v
  <2>4. CacheTyped'
    BY <2>1, <2>2, <2>3 DEF CacheInv, CacheTyped, BlockAt
  <2>5. Caches!NoStoreLost'
    <3>1. mem \in [Caches!Lines -> 0 .. MaxStores] /\ written \in [Caches!Lines -> 0 .. MaxStores]
      BY DEF CacheInv, CacheTyped
    <3>2. QED
      BY <2>2, <2>3, <3>1 DEF CacheInv, Caches!NoStoreLost, Caches!Lines
  <2>6. OneInPlace' /\ TakenOut'
    BY <2>3 DEF CacheInv, OneInPlace, TakenOut, Caches!Taken
  <2>7. QED
    BY <2>4, <2>5, <2>6 DEF CacheInv
<1>6. ASSUME UNCHANGED <<written, mem, dcache, stores, block>>,
             icache' \in [DOMAIN icache' -> 0 .. MaxStores], DOMAIN icache' \subseteq Caches!Lines,
             loading' \in {"copy", "flushed", "loaded"}
      PROVE  CacheInv'
  <2>1. CacheTyped'
    BY <1>6 DEF CacheInv, CacheTyped, BlockAt
  <2>2. OneInPlace' /\ Caches!NoStoreLost' /\ TakenOut'
    BY <1>6 DEF CacheInv, OneInPlace, Caches!NoStoreLost, TakenOut, Caches!Taken
  <2>3. QED
    BY <2>1, <2>2 DEF CacheInv
<1>7. /\ loading \in {"copy", "flushed", "loaded"} /\ mem \in [Caches!Lines -> 0 .. MaxStores]
      /\ icache \in [DOMAIN icache -> 0 .. MaxStores] /\ DOMAIN icache \subseteq Caches!Lines
      /\ written \in [Caches!Lines -> 0 .. MaxStores] /\ DOMAIN dcache \subseteq Caches!Lines
      /\ dcache \in [DOMAIN dcache -> 0 .. MaxStores]
  BY DEF CacheInv, CacheTyped
<1>8. ASSUME NEW ls, icache' = Caches!Drop(icache, ls),
             UNCHANGED <<written, mem, dcache, stores, block>>,
             loading' \in {"copy", "flushed", "loaded"}
      PROVE  CacheInv'
  BY <1>6, <1>7, <1>8 DEF Caches!Drop
<1>9. ASSUME NEW l \in Caches!Lines, Caches!Fetch(l)
      PROVE  CacheInv'
  <2>1. /\ icache' \in [DOMAIN icache' -> 0 .. MaxStores]
        /\ DOMAIN icache' \subseteq Caches!Lines
    BY <1>7, <1>9 DEF Caches!Fetch
  <2>2. QED
    BY <1>6, <1>7, <1>9, <2>1 DEF Caches!Fetch
<1>10. ASSUME NEW r \in Caches!Regions, Caches!Flush(r[1], r[2])
       PROVE  CacheInv'
  <2>1. PICK ls : ls = Caches!LinesOf(Caches!Visited(r[1], r[2]))
    OBVIOUS
  <2>2. /\ mem' = Caches!WrittenBack(ls) /\ dcache' = Caches!Drop(dcache, ls)
        /\ UNCHANGED <<written, stores, block>> /\ icache' = icache /\ loading' = loading
    BY <1>10, <2>1 DEF Caches!Flush
  <2>3. QED
    BY <1>3, <1>7, <2>2
<1>11. ASSUME NEW r \in Caches!Regions, Caches!Discard(r[1], r[2])
       PROVE  CacheInv'
  <2>1. PICK ls : ls = Caches!LinesOf(Caches!Visited(r[1], r[2]))
    OBVIOUS
  <2>2. /\ UNCHANGED <<mem, icache, stores, block, loading>>
        /\ dcache' = Caches!Drop(dcache, ls)
        /\ written' = [l \in Caches!Lines |-> IF l \in ls THEN mem[l] ELSE written[l]]
    BY <1>11, <2>1 DEF Caches!Discard
  <2>3. /\ DOMAIN dcache' = DOMAIN dcache \ ls
        /\ \A l \in DOMAIN dcache' : dcache'[l] = dcache[l]
        /\ dcache' \in [DOMAIN dcache' -> 0 .. MaxStores]
    BY <1>7, <2>2 DEF Caches!Drop
  <2>4. written' \in [Caches!Lines -> 0 .. MaxStores]
    BY <1>7, <2>2
  <2>5. CacheTyped'
    BY <2>2, <2>3, <2>4 DEF CacheInv, CacheTyped, BlockAt
  <2>6. Caches!NoStoreLost'
    BY <2>2, <2>3 DEF CacheInv, Caches!NoStoreLost, Caches!Lines
  <2>7. OneInPlace' /\ TakenOut'
    BY <2>2, <2>3 DEF CacheInv, OneInPlace, TakenOut, Caches!Taken
  <2>8. QED
    BY <2>5, <2>6, <2>7 DEF CacheInv
<1>12. ASSUME NEW r \in Caches!Regions, Caches!FlushInstructions(r[1], r[2])
       PROVE  CacheInv'
  BY <1>7, <1>8, <1>12 DEF Caches!FlushInstructions
<1>13. ASSUME NEW line \in Caches!Lines, NEW nbytes \in 1 .. LineBytes + 1,
              Caches!UncachedMalloc(line, nbytes)
       PROVE  CacheInv'
  <2> DEFINE base == line * LineBytes
             len == Caches!Rounded(nbytes)
  <2>1. PICK ls : ls = Caches!LinesOf(Caches!Visited(base, len))
    OBVIOUS
  <2>2. /\ block = NoBlock /\ block' = <<base, nbytes>>
        /\ mem' = Caches!WrittenBack(ls) /\ dcache' = Caches!Drop(dcache, ls)
        /\ len <= (MemLines - line) * LineBytes
        /\ UNCHANGED <<written, icache, stores, loading>>
    BY <1>13, <2>1 DEF Caches!UncachedMalloc
  <2>3. /\ mem' \in [Caches!Lines -> 0 .. MaxStores]
        /\ dcache' \in [DOMAIN dcache' -> 0 .. MaxStores]
        /\ DOMAIN dcache' = DOMAIN dcache \ ls
        /\ OneInPlace' /\ Caches!NoStoreLost'
    BY <2>2, Cleaned
  <2>4. line \in Nat /\ nbytes \in Nat
    BY <1>1, SMT DEF Caches!Lines
  <2>5. base \in Nat /\ len \in Nat
    <3>1. base \in Nat
      BY <1>1, <2>4, SMT
    <3>2. PICK n \in Nat : len = n * LineBytes
      BY <2>4, InLines
    <3>3. QED
      BY <1>1, <3>1, <3>2, SMT
  <2> HIDE DEF base, len
  <2>6. BlockAt(line, nbytes)'
    BY <1>13, <2>2 DEF BlockAt, base, len
  <2>7. CacheTyped'
    BY <1>7, <2>2, <2>3, <2>4, <2>6 DEF CacheInv, CacheTyped
  <2>8. Caches!Taken' = {} \/ Caches!Taken' = Caches!Region(base, len)
    BY <2>2 DEF Caches!Taken, len
  <2>9. Caches!LinesOf(Caches!Taken') \subseteq ls
    <3>1. Caches!LinesOf(Caches!Region(base, len)) \subseteq ls
      BY <2>1, <2>5, RegionLines
    <3>2. QED
      BY <2>8, <3>1 DEF Caches!LinesOf
  <2>10. TakenOut'
    BY <2>3, <2>9 DEF TakenOut, Caches!LinesOf
  <2>11. QED
    BY <2>3, <2>7, <2>10 DEF CacheInv
<1>14. ASSUME Caches!RemapCached \/ Caches!UncachedFree
       PROVE  CacheInv'
  <2>1. block' = NoBlock /\ UNCHANGED <<written, mem, dcache, icache, stores, loading>>
    BY <1>14 DEF Caches!RemapCached, Caches!UncachedFree
  <2>2. CacheTyped' /\ OneInPlace'
    BY <2>1 DEF CacheInv, CacheTyped, OneInPlace
  <2>3. Caches!NoStoreLost'
    BY <2>1 DEF CacheInv, Caches!NoStoreLost
  <2>4. TakenOut'
    BY <2>1 DEF TakenOut, Caches!Taken, Caches!LinesOf
  <2>5. QED
    BY <2>2, <2>3, <2>4 DEF CacheInv
<1>15. ASSUME Caches!FlushAllData
       PROVE  CacheInv'
  <2>1. /\ mem' = Caches!WrittenBack(Caches!Lines) /\ dcache' = Caches!Empty
        /\ UNCHANGED <<written, icache, stores, block>> /\ loading' = "flushed"
    BY <1>15 DEF Caches!FlushAllData
  <2>2. Caches!Empty = Caches!Drop(dcache, Caches!Lines)
    BY <1>7 DEF Caches!Empty, Caches!Drop
  <2>3. QED
    BY <1>3, <2>1, <2>2
<1>16. ASSUME Caches!FlushAllInstructions
       PROVE  CacheInv'
  BY <1>8, <1>16 DEF Caches!FlushAllInstructions
<1>17. ASSUME UNCHANGED Caches!vars
       PROVE  CacheInv'
  BY <1>6, <1>7, <1>17 DEF Caches!vars
<1>18. QED
  BY <1>4, <1>5, <1>9, <1>10, <1>11, <1>12, <1>13, <1>14, <1>15, <1>16, <1>17
     DEF Caches!Next

LEMMA CachesSafe ==
  ASSUME Caches!CacheAssumption, CacheInv
  PROVE  Caches!TypeOK /\ Caches!NoStoreLost /\ Caches!UncachedStaysOut
<1>1. ASSUME block # NoBlock
      PROVE  /\ Caches!LinesOf(Caches!Taken) \subseteq Caches!Lines
             /\ Caches!Region(block[1], block[2]) \subseteq Caches!Taken
  <2>1. PICK line \in Nat, nbytes \in Nat : BlockAt(line, nbytes)
    BY <1>1 DEF CacheInv, CacheTyped
  <2>2. QED
    BY <2>1, WholeLines
<1>2. Caches!TypeOK
  BY <1>1 DEF CacheInv, CacheTyped, OneInPlace, Caches!TypeOK
<1>3. Caches!UncachedStaysOut
  BY <1>1 DEF CacheInv, TakenOut, Caches!UncachedStaysOut, Caches!LinesOf
<1>4. QED
  BY <1>2, <1>3 DEF CacheInv

\* Whatever is stored, flushed, discarded and handed out uncached: a store is
\* in the cache or in memory, and no line of an uncached block is cached.
THEOREM StoresKept ==
  ASSUME Caches!CacheAssumption
  PROVE  Caches!Spec => [](Caches!TypeOK /\ Caches!NoStoreLost /\ Caches!UncachedStaysOut)
<1>1. Caches!Init => CacheInv
  BY CacheStarts
<1>2. CacheInv /\ [Caches!Next]_(Caches!vars) => CacheInv'
  BY CacheStep
<1>3. CacheInv => Caches!TypeOK /\ Caches!NoStoreLost /\ Caches!UncachedStaysOut
  BY CachesSafe
<1>4. QED
  BY <1>1, <1>2, <1>3, PTL DEF Caches!Spec

\* Lines that are a whole number of caches apart have the same place.
LEMMA SamePlace ==
  ASSUME NEW d \in Nat \ {0}, NEW x \in Nat, NEW m \in Int
  PROVE  (x + d * m) % d = x % d
<1> DEFINE q == x \div d
           r == x % d
<1>1. q \in Int /\ r \in 0 .. d - 1 /\ x = (d * q) + r
  BY Division
<1> HIDE DEF q, r
<1>2. d * (q + m) = (d * q) + (d * m) /\ d * m \in Int /\ d * q \in Int
  BY <1>1, SMT
<1>3. x + d * m = d * (q + m) + r
  <2> DEFINE e == d * q
             f == d * m
             g == d * (q + m)
  <2>1. e \in Int /\ f \in Int /\ g = e + f /\ x = e + r
    BY <1>1, <1>2
  <2> HIDE DEF e, f, g
  <2>2. x + f = g + r
    BY <1>1, <2>1, SMT
  <2>3. QED
    BY <2>2 DEF f, g
<1>4. (d * (q + m) + r) % d = r
  BY <1>1, Quotient
<1>5. QED
  BY <1>3, <1>4 DEF r

\* The instructions that go are those in the places of the region's lines,
\* when the region is longer than the cache too.
LEMMA PlacesCovered ==
  ASSUME Caches!CacheAssumption, NEW start \in Nat, NEW len \in Nat,
         NEW b \in Caches!Region(start, len)
  PROVE  Caches!LineOf(b) \in Caches!InstructionsOut(start, len)
<1> DEFINE L == LineBytes
           F == ISets * LineBytes
           c == Caches!Clamped(len)
<1>1. L \in Nat \ {0} /\ ISets \in Nat \ {0} /\ F = L * ISets /\ F \in Nat \ {0}
  <2>1. L \in Nat \ {0} /\ ISets \in Nat \ {0}
    BY DEF Caches!CacheAssumption
  <2>2. QED
    BY <2>1, SMT
<1>2. b \in Nat /\ start <= b /\ b < start + len /\ b \in Caches!Bytes
  <2>1. \A i \in Caches!Bytes : i \in Nat
    BY SMT DEF Caches!Bytes
  <2>2. QED
    BY <2>1 DEF Caches!Region
<1>3. Caches!LineOf(b) \in Caches!Lines
  BY <1>2, ByteInLine
<1> DEFINE d == b - start
           m == d \div F
           r == d % F
           near == start + r
<1>4. d \in Nat /\ b = start + d /\ d < len
  BY <1>2, SMT
<1>5. m \in Int /\ r \in 0 .. F - 1 /\ d = (F * m) + r
  <2>1. d \in Int
    BY <1>4
  <2> HIDE DEF F, d
  <2>2. QED
    BY <1>1, <2>1, Division
<1> HIDE DEF d, m, r
<1>6. m \in Nat
  <2>1. m <= -1 => F * m <= -F
    <3> HIDE DEF F
    <3> QED BY <1>1, <1>5, SMT
  <2> DEFINE p == F * m
  <2>2. p \in Int /\ d = p + r
    BY <1>1, <1>5, SMT
  <2> HIDE DEF p, F
  <2>3. ~(p <= -F)
    BY <1>1, <1>4, <1>5, <2>2, SMT
  <2>4. QED
    BY <1>5, <2>1, <2>3, SMT DEF p
<1>7. near \in Nat /\ start <= near
  <2> HIDE DEF F
  <2> QED BY <1>1, <1>5, SMT
<1>8. c \in Nat /\ near < start + c
  <2>1. CASE len > F
    <3>1. c = F
      BY <2>1 DEF Caches!Clamped
    <3> HIDE DEF F, c
    <3>2. QED
      BY <1>1, <1>5, <3>1, SMT
  <2>2. CASE ~(len > F)
    <3>1. c = len
      BY <2>2 DEF Caches!Clamped
    <3>2. r <= d
      <4> DEFINE p == F * m
      <4>1. p \in Nat /\ d = p + r
        <5> HIDE DEF F
        <5> QED BY <1>1, <1>5, <1>6, SMT
      <4> HIDE DEF p, F
      <4>2. QED
        BY <1>1, <1>4, <1>5, <4>1, SMT
    <3> HIDE DEF c, F
    <3>3. QED
      BY <1>1, <1>4, <1>5, <3>1, <3>2, SMT
  <2>3. QED
    BY <2>1, <2>2
<1>9. Caches!LineOf(near) \in Caches!LinesOf(Caches!Visited(start, c))
  <2> HIDE DEF near, c
  <2> QED BY <1>7, <1>8, VisitedCovers
<1>10. Caches!LineOf(near) \in Nat /\ Caches!LineOf(b) = Caches!LineOf(near) + ISets * m
  <2> DEFINE q == Caches!LineOf(near)
             s == near % L
  <2>1. q \in Nat /\ s \in 0 .. L - 1 /\ near = (L * q) + s
    <3> HIDE DEF near
    <3> QED BY <1>7, LineAndPlace
  <2>2. b = near + F * m
    <3> DEFINE p == F * m
    <3>1. p \in Int /\ d = p + r
      BY <1>1, <1>5, SMT
    <3> HIDE DEF p, F
    <3>2. b = start + r + p
      BY <1>1, <1>4, <1>5, <3>1, SMT
    <3>3. near = start + r
      OBVIOUS
    <3>4. start + r + p = (start + r) + p
      OBVIOUS
    <3>5. QED
      BY <3>2, <3>3, <3>4 DEF p
  <2> HIDE DEF near, q, s
  <2>3. F * m = L * (ISets * m)
    BY <1>1, <1>5, SMT
  <2>4. L * (q + ISets * m) = (L * q) + (L * (ISets * m)) /\ ISets * m \in Int
    BY <1>1, <1>5, <2>1, SMT
  <2> DEFINE u == L * q
             w == L * (ISets * m)
             t == L * (q + ISets * m)
  <2>5. u \in Int /\ w \in Int /\ t = u + w /\ b = (u + s) + w
    <3>1. u \in Int /\ w \in Int
      BY <1>1, <1>5, <2>1, <2>4, SMT
    <3>2. QED
      BY <2>1, <2>2, <2>3, <2>4, <3>1
  <2> HIDE DEF u, w, t
  <2>6. b = t + s
    BY <1>1, <2>1, <2>5, SMT
  <2>7. b = (LineBytes * (q + ISets * m)) + s
    BY <2>6 DEF t
  <2>8. q + ISets * m \in Int
    BY <2>1, <2>4, SMT
  <2>9. Caches!LineOf(b) = q + ISets * m
    BY <2>1, <2>7, <2>8, LineIs
  <2>10. QED
    BY <2>1, <2>9 DEF q
<1>11. Caches!LineOf(b) % ISets = Caches!LineOf(near) % ISets
  <2> HIDE DEF near
  <2> QED BY <1>1, <1>5, <1>10, SamePlace
<1>12. QED
  <2> HIDE DEF near
  <2> QED BY <1>3, <1>9, <1>11 DEF Caches!InstructionsOut

LEMMA FlushesRegion ==
  ASSUME Caches!CacheAssumption, CacheInv
  PROVE  Caches!RegionFlushed
<1> SUFFICES ASSUME NEW r \in Caches!Regions
             PROVE  LET region == Caches!LinesOf(Caches!Region(r[1], r[2]))
                    IN  /\ Caches!Flush(r[1], r[2]) =>
                              \A l \in region : mem'[l] = written[l] /\ l \notin DOMAIN dcache'
                        /\ Caches!FlushInstructions(r[1], r[2]) =>
                              region \cap DOMAIN icache' = {}
  BY DEF Caches!RegionFlushed
<1> DEFINE start == r[1]
           len == r[2]
           region == Caches!LinesOf(Caches!Region(start, len))
           ls == Caches!LinesOf(Caches!Visited(start, len))
<1>1. start \in Nat /\ len \in Nat
  <2>1. r \in Caches!Bytes \X Lengths
    BY DEF Caches!Regions
  <2>2. \A b \in Caches!Bytes : b \in Nat
    BY SMT DEF Caches!Bytes
  <2>3. QED
    BY <2>1, <2>2 DEF Caches!CacheAssumption
<1> HIDE DEF start, len
<1>2. region \subseteq ls /\ region \subseteq Caches!Lines
  <2>1. region \subseteq ls
    BY <1>1, RegionLines
  <2>2. region \subseteq Caches!Lines
    BY ByteInLine DEF Caches!LinesOf, Caches!Region
  <2>3. QED
    BY <2>1, <2>2
<1> HIDE DEF ls
<1>3. ASSUME Caches!Flush(start, len)
      PROVE  \A l \in region : mem'[l] = written[l] /\ l \notin DOMAIN dcache'
  <2>1. /\ mem' = Caches!WrittenBack(ls) /\ dcache' = Caches!Drop(dcache, ls)
        /\ UNCHANGED <<written, stores>>
    BY <1>3 DEF Caches!Flush, ls
  <2>2. /\ DOMAIN dcache' = DOMAIN dcache \ ls
        /\ \A l \in ls \cap Caches!Lines : mem'[l] = written[l]
    BY <2>1, Cleaned
  <2>3. QED
    BY <1>2, <2>2
<1>4. ASSUME Caches!FlushInstructions(start, len)
      PROVE  region \cap DOMAIN icache' = {}
  <2>1. DOMAIN icache' = DOMAIN icache \ Caches!InstructionsOut(start, len)
    BY <1>4 DEF Caches!FlushInstructions, Caches!Drop
  <2>2. region \subseteq Caches!InstructionsOut(start, len)
    BY <1>1, PlacesCovered DEF Caches!LinesOf
  <2>3. QED
    BY <2>1, <2>2
<1>5. QED
  BY <1>3, <1>4 DEF start, len

\* What is flushed is in memory and gone from the cache, and no instruction of
\* it stays, however the region lies on the lines.
THEOREM RegionsFlushed ==
  ASSUME Caches!CacheAssumption
  PROVE  Caches!Spec => [][Caches!RegionFlushed]_(Caches!vars)
<1>1. Caches!Init => CacheInv
  BY CacheStarts
<1>2. CacheInv /\ [Caches!Next]_(Caches!vars) => CacheInv'
  BY CacheStep
<1>3. CacheInv => Caches!RegionFlushed
  BY FlushesRegion
<1>4. QED
  BY <1>1, <1>2, <1>3, PTL DEF Caches!Spec

LEMMA FlushesInstructions ==
  ASSUME Caches!CacheAssumption, CacheInv, Caches!FlushAllInstructions
  PROVE  icache' = Caches!Empty
<1>1. icache' = Caches!Drop(icache, Caches!InstructionsOut(0, ISets * LineBytes))
  BY DEF Caches!FlushAllInstructions
<1>2. ASSUME NEW l \in Caches!Lines
      PROVE  l \in Caches!InstructionsOut(0, ISets * LineBytes)
  <2> DEFINE F == ISets * LineBytes
             k == l % ISets
             b == LineBytes * k
  <2>1. ISets \in Nat \ {0} /\ LineBytes \in Nat \ {0} /\ MemLines \in Nat \ {0} /\ l \in Nat
    BY SMT DEF Caches!CacheAssumption, Caches!Lines
  <2>2. k \in 0 .. ISets - 1
    BY <2>1, SMT
  <2> HIDE DEF k
  <2>3. F \in Nat /\ b \in Nat /\ F = LineBytes * ISets /\ b < F
    BY <2>1, <2>2, SMT
  <2>4. k \in Nat /\ k \in Int /\ k < ISets
    BY <2>1, <2>2, SMT
  <2>5. Caches!LineOf(b) = k
    <3>1. b = (LineBytes * k) + 0 /\ 0 \in 0 .. LineBytes - 1
      BY <2>1, <2>3, SMT
    <3>2. QED
      BY <2>4, <3>1, LineIs
  <2>6. Caches!Clamped(F) = F
    BY DEF Caches!Clamped
  <2>7. Caches!LineOf(b) \in Caches!LinesOf(Caches!Visited(0, F))
    <3>1. 0 \in Nat /\ 0 <= b /\ b < 0 + F
      BY <2>3, SMT
    <3> HIDE DEF b, F
    <3>2. QED
      BY <2>3, <3>1, VisitedCovers
  <2>8. l % ISets = k % ISets
    BY <2>1, <2>4, SMT DEF k
  <2>9. QED
    BY <2>5, <2>6, <2>7, <2>8 DEF Caches!InstructionsOut
<1>3. DOMAIN icache \subseteq Caches!Lines
  BY DEF CacheInv, CacheTyped
<1>4. QED
  BY <1>1, <1>2, <1>3 DEF Caches!Drop, Caches!Empty

\* Once the sections are copied and the caches flushed, no instruction that
\* was fetched before stays in the cache.
THEOREM LoadedInSynch ==
  ASSUME Caches!CacheAssumption
  PROVE  Caches!Spec => Caches!InSynch
<1>1. Caches!Init => CacheInv
  BY CacheStarts
<1>2. CacheInv /\ [Caches!Next]_(Caches!vars) => CacheInv'
  BY CacheStep
<1>3. CacheInv => (Caches!FlushAllInstructions => icache' = Caches!Empty)
  BY FlushesInstructions
<1>4. QED
  BY <1>1, <1>2, <1>3, PTL DEF Caches!Spec, Caches!InSynch

-----------------------------------------------------------------------------
\* PerfCounter.tla.

CounterTyped ==
  /\ time \in [Counter!Sections -> 0 .. MaxClocks] /\ starts \in [Counter!Sections -> Nat]
  /\ enabled \in [Counter!Sections -> BOOLEAN] /\ clocks \in 0 .. MaxClocks
  /\ \A s \in Counter!Sections : time[s] <= clocks /\ starts[s] <= clocks
  /\ reading \in {"idle", "get", "lo", "hi"} /\ section \in Counter!Sections
  /\ lo \in Nat /\ (lo < HalfWord) /\ shown \in [Counter!Sections -> Nat]

\* From its first access on the driver reads a counter that stands still.
StandsStill ==
  /\ reading # "idle" => ~enabled[0]
  /\ reading = "hi" => lo = time[section] % HalfWord

CounterInv == CounterTyped /\ StandsStill /\ Counter!WithinWhole

\* The clocks and the accesses of one step.
LEMMA ClockKeeps ==
  ASSUME Counter!PerfAssumption, CounterTyped, Counter!WithinWhole, NEW a, Counter!Clock(a)
  PROVE  /\ time' \in [Counter!Sections -> 0 .. MaxClocks] /\ starts' \in [Counter!Sections -> Nat]
         /\ enabled' \in [Counter!Sections -> BOOLEAN] /\ clocks' \in 0 .. MaxClocks
         /\ \A s \in Counter!Sections : time'[s] <= clocks' /\ starts'[s] <= clocks'
         /\ Counter!WithinWhole'
         /\ ~Counter!Go(a, 0) /\ ~enabled[0] => ~enabled'[0]
         /\ Counter!Halt(a, 0) => ~enabled'[0]
         /\ ~Counter!Reset(a) /\ ~Counter!Go(a, 0) /\ ~enabled[0] => time' = time
<1> DEFINE W == HalfWord * HalfWord
<1>1. W \in Nat /\ MaxClocks \in Nat /\ MaxClocks < W
  <2>1. HalfWord \in Nat /\ MaxClocks \in Nat /\ MaxClocks < W
    BY DEF Counter!PerfAssumption
  <2>2. QED
    BY <2>1, SMT
<1>2. /\ clocks \in Nat /\ clocks < MaxClocks /\ clocks' = clocks + 1
  BY SMT DEF CounterTyped, Counter!Clock
<1> DEFINE counted(s) == ~Counter!Reset(a) /\ enabled[s] /\ Counter!Global(a)
           started(s) == ~Counter!Reset(a) /\ Counter!Go(a, s) /\ Counter!Global(a)
<1>3. ASSUME NEW s \in Counter!Sections
      PROVE  /\ time[s] \in Nat /\ time[s] <= clocks /\ starts[s] \in Nat /\ starts[s] <= clocks
             /\ time'[s] = IF Counter!Reset(a) THEN 0
                           ELSE IF counted(s) THEN time[s] + 1 ELSE time[s]
             /\ starts'[s] = IF Counter!Reset(a) THEN 0
                             ELSE IF started(s) THEN starts[s] + 1 ELSE starts[s]
  <2>1. time[s] \in Nat /\ time[s] <= clocks /\ starts[s] \in Nat /\ starts[s] <= clocks
    <3>1. time[s] \in 0 .. MaxClocks /\ starts[s] \in Nat /\ time[s] <= clocks /\ starts[s] <= clocks
      BY DEF CounterTyped
    <3>2. QED
      BY <1>1, <3>1, SMT
  <2>2. (time[s] + 1) % W = time[s] + 1
    <3> HIDE DEF W
    <3>1. time[s] + 1 \in Nat /\ time[s] + 1 < W /\ W > 0
      BY <1>1, <1>2, <2>1, SMT
    <3>2. \A x \in Nat : x < W => x % W = x
      BY <1>1, SMT
    <3>3. QED
      BY <3>1, <3>2
  <2>3. time'[s] = CASE Counter!Reset(a) -> 0
                     [] counted(s) -> (time[s] + 1) % W
                     [] OTHER -> time[s]
    BY DEF Counter!Clock
  <2>4. starts'[s] = CASE Counter!Reset(a) -> 0
                       [] started(s) -> starts[s] + 1
                       [] OTHER -> starts[s]
    BY DEF Counter!Clock
  <2> HIDE DEF W
  <2>5. counted(s) => ~Counter!Reset(a)
    OBVIOUS
  <2>6. started(s) => ~Counter!Reset(a)
    OBVIOUS
  <2> HIDE DEF counted, started, Counter!Reset
  <2>7. QED
    BY <2>1, <2>2, <2>3, <2>4, <2>5, <2>6
<1>4. /\ time' \in [Counter!Sections -> 0 .. MaxClocks] /\ starts' \in [Counter!Sections -> Nat]
      /\ \A s \in Counter!Sections : time'[s] <= clocks' /\ starts'[s] <= clocks'
  <2>1. DOMAIN time' = Counter!Sections /\ DOMAIN starts' = Counter!Sections
        /\ time' = [s \in Counter!Sections |-> time'[s]] /\ starts' = [s \in Counter!Sections |-> starts'[s]]
    BY DEF Counter!Clock
  <2>2. ASSUME NEW s \in Counter!Sections
        PROVE  /\ time'[s] \in 0 .. MaxClocks /\ time'[s] <= clocks'
               /\ starts'[s] \in Nat /\ starts'[s] <= clocks'
    <3> HIDE DEF counted, started
    <3>1. QED
      BY <1>1, <1>2, <1>3, SMT
  <2>3. QED
    BY <2>1, <2>2
<1>5. enabled' \in [Counter!Sections -> BOOLEAN] /\ clocks' \in 0 .. MaxClocks
  <2>1. enabled' \in [Counter!Sections -> BOOLEAN]
    BY DEF Counter!Clock
  <2>2. QED
    BY <1>1, <1>2, <2>1, SMT
<1>6. 0 \in Counter!Sections /\ 1 \in Counter!Sections
  BY DEF Counter!Sections
<1>7. ~Counter!Go(a, 0) /\ ~enabled[0] => ~enabled'[0]
  BY <1>6 DEF Counter!Clock
<1>8. Counter!Halt(a, 0) => ~enabled'[0]
  BY <1>6 DEF Counter!Clock
<1>9. ~Counter!Reset(a) /\ ~Counter!Go(a, 0) /\ ~enabled[0] => time' = time
  <2>1. SUFFICES ASSUME ~Counter!Reset(a), ~Counter!Go(a, 0), ~enabled[0]
                 PROVE  time' = time
    OBVIOUS
  <2>2. ~Counter!Global(a)
    BY <2>1 DEF Counter!Global
  <2>3. \A s \in Counter!Sections : time'[s] = time[s]
    BY <1>3, <2>1, <2>2
  <2>4. time \in [Counter!Sections -> 0 .. MaxClocks]
    BY DEF CounterTyped
  <2>5. QED
    BY <1>4, <2>3, <2>4
<1>10. Counter!WithinWhole'
  <2>1. counted(1) => counted(0) \/ started(0)
    BY DEF Counter!Global
  <2>2. time[1] <= time[0] + starts[0]
    BY DEF Counter!WithinWhole
  <2> HIDE DEF counted, started
  <2>3. time'[1] <= time'[0] + starts'[0]
    BY <1>3, <1>6, <2>1, <2>2, SMT
  <2>4. QED
    BY <2>3 DEF Counter!WithinWhole
<1>11. QED
  BY <1>4, <1>5, <1>7, <1>8, <1>9, <1>10

\* A value is its two halves.
LEMMA Halves ==
  ASSUME Counter!PerfAssumption, NEW t \in Nat
  PROVE  /\ (t \div HalfWord) * HalfWord + (t % HalfWord) = t
         /\ t % HalfWord \in Nat /\ t % HalfWord < HalfWord
<1>1. HalfWord \in Nat \ {0}
  BY DEF Counter!PerfAssumption
<1>2. t \div HalfWord \in Int /\ t % HalfWord \in 0 .. HalfWord - 1
      /\ t = (HalfWord * (t \div HalfWord)) + (t % HalfWord)
  BY <1>1, Division
<1>3. (t \div HalfWord) * HalfWord = HalfWord * (t \div HalfWord)
  BY <1>1, <1>2, SMT
<1>4. QED
  BY <1>1, <1>2, <1>3, SMT

LEMMA CounterStep ==
  ASSUME Counter!PerfAssumption, CounterInv, [Counter!Next]_(Counter!vars)
  PROVE  CounterInv' /\ (Counter!ReadHi => shown'[section] = time'[section])
<1>1. /\ CounterTyped /\ Counter!WithinWhole /\ StandsStill
      /\ reading \in {"idle", "get", "lo", "hi"} /\ section \in Counter!Sections
      /\ lo \in Nat /\ lo < HalfWord /\ shown \in [Counter!Sections -> Nat]
  BY DEF CounterInv, CounterTyped
<1>2. ~Counter!Reset(Counter!NoAccess) /\ ~Counter!Go(Counter!NoAccess, 0)
  <2>1. Counter!NoAccess.op = "none" /\ Counter!Op("begin", 0).op = "begin"
    BY DEF Counter!NoAccess, Counter!Op
  <2>2. QED
    BY <2>1 DEF Counter!Reset, Counter!Go
<1>3. ~Counter!Go(Counter!Stops, 0) /\ Counter!Halt(Counter!Stops, 0)
  <2>1. Counter!Stops.op = "end" /\ Counter!Op("begin", 0).op = "begin"
    BY DEF Counter!Stops, Counter!Op
  <2>2. Counter!Stops = Counter!Op("end", 0)
    BY DEF Counter!Stops
  <2>3. QED
    BY <2>1, <2>2 DEF Counter!Halt, Counter!Go
<1>4. ASSUME NEW a, Counter!Clock(a)
      PROVE  /\ time' \in [Counter!Sections -> 0 .. MaxClocks] /\ starts' \in [Counter!Sections -> Nat]
             /\ enabled' \in [Counter!Sections -> BOOLEAN] /\ clocks' \in 0 .. MaxClocks
             /\ \A s \in Counter!Sections : time'[s] <= clocks' /\ starts'[s] <= clocks'
             /\ Counter!WithinWhole'
  BY <1>1, <1>4, ClockKeeps
<1>5. ASSUME Counter!Mark
      PROVE  CounterInv' /\ ~Counter!ReadHi
  <2>1. PICK a \in {Counter!NoAccess, Counter!Op("reset", 0)}
                   \cup {Counter!Op(o, s) : o \in {"begin", "end"}, s \in Counter!Sections} : Counter!Clock(a)
    BY <1>5 DEF Counter!Mark
  <2>2. reading = "idle" /\ UNCHANGED <<reading, section, lo, shown>>
    BY <1>5 DEF Counter!Mark, Counter!driver
  <2>3. CounterTyped' /\ Counter!WithinWhole'
    BY <1>1, <1>4, <2>1, <2>2 DEF CounterTyped
  <2>4. QED
    BY <2>2, <2>3 DEF CounterInv, StandsStill, Counter!ReadHi
<1>6. ASSUME Counter!Between
      PROVE  CounterInv' /\ (Counter!ReadHi => FALSE)
  <2>1. PICK a \in {Counter!NoAccess, Counter!Op("begin", 1), Counter!Op("end", 1)} : Counter!Clock(a)
    BY <1>6 DEF Counter!Between
  <2>2. ~Counter!Reset(a) /\ ~Counter!Go(a, 0)
    <3>1. /\ Counter!Op("begin", 1).op = "begin" /\ Counter!Op("begin", 1).section = 1
          /\ Counter!Op("end", 1).op = "end"
          /\ Counter!Op("begin", 0).op = "begin" /\ Counter!Op("begin", 0).section = 0
      BY DEF Counter!Op
    <3>2. QED
      BY <1>2, <2>1, <3>1 DEF Counter!Reset, Counter!Go
  <2>3. reading # "idle" /\ UNCHANGED <<reading, section, lo, shown>>
    BY <1>6 DEF Counter!Between, Counter!driver
  <2>4. CounterTyped' /\ Counter!WithinWhole'
    BY <1>1, <1>4, <2>1, <2>2, <2>3 DEF CounterTyped
  <2>5. time' = time /\ ~enabled'[0]
    BY <1>1, <2>1, <2>2, <2>3, ClockKeeps DEF StandsStill
  <2>6. StandsStill'
    BY <1>1, <2>3, <2>5 DEF StandsStill
  <2>7. ~Counter!ReadHi
    BY <2>3 DEF Counter!ReadHi
  <2>8. QED
    BY <2>4, <2>6, <2>7 DEF CounterInv
<1>7. ASSUME Counter!Report \/ Counter!Get \/ Counter!GetSection
      PROVE  CounterInv' /\ ~Counter!ReadHi
  <2>1. Counter!Clock(Counter!Stops) /\ reading' \in {"get", "lo"} /\ section' \in Counter!Sections
        /\ UNCHANGED <<lo, shown>> /\ reading \in {"idle", "get"}
    BY <1>1, <1>7 DEF Counter!Report, Counter!Get, Counter!GetSection, Counter!Stops,
                      Counter!Sections
  <2>2. CounterTyped' /\ Counter!WithinWhole'
    BY <1>1, <1>3, <1>4, <2>1 DEF CounterTyped
  <2>3. ~enabled'[0]
    BY <1>1, <1>3, <2>1, ClockKeeps
  <2>4. QED
    BY <2>1, <2>2, <2>3 DEF CounterInv, StandsStill, Counter!ReadHi
<1>8. time[section] \in Nat
  BY <1>1, SMT DEF CounterTyped
<1>9. ASSUME Counter!ReadLo
      PROVE  CounterInv' /\ ~Counter!ReadHi
  <2>1. /\ reading = "lo" /\ reading' = "hi" /\ lo' = time[section] % HalfWord
        /\ Counter!Clock(Counter!NoAccess) /\ UNCHANGED <<section, shown>>
    BY <1>9 DEF Counter!ReadLo, Counter!Low
  <2>2. lo' \in Nat /\ lo' < HalfWord
    BY <1>8, <2>1, Halves
  <2>3. CounterTyped' /\ Counter!WithinWhole'
    BY <1>1, <1>2, <1>4, <2>1, <2>2 DEF CounterTyped
  <2>4. time' = time /\ ~enabled'[0]
    BY <1>1, <1>2, <2>1, ClockKeeps DEF StandsStill
  <2>5. QED
    BY <2>1, <2>3, <2>4 DEF CounterInv, StandsStill, Counter!ReadHi
<1>10. ASSUME Counter!ReadHi
       PROVE  CounterInv' /\ shown'[section] = time'[section]
  <2>1. /\ reading = "hi" /\ reading' \in {"get", "idle"} /\ section' \in Counter!Sections
        /\ shown' = [shown EXCEPT ![section] = (time[section] \div HalfWord) * HalfWord + lo]
        /\ Counter!Clock(Counter!NoAccess) /\ lo' = lo
    BY <1>10 DEF Counter!ReadHi, Counter!Sections
  <2>2. time' = time /\ ~enabled'[0]
    BY <1>1, <1>2, <2>1, ClockKeeps DEF StandsStill
  <2>3. (time[section] \div HalfWord) * HalfWord + lo = time[section]
    BY <1>1, <1>8, <2>1, Halves DEF StandsStill
  <2>4. shown' \in [Counter!Sections -> Nat] /\ shown'[section] = time[section]
    BY <1>1, <1>8, <2>1, <2>3
  <2>5. CounterTyped' /\ Counter!WithinWhole'
    BY <1>1, <1>2, <1>4, <2>1, <2>4 DEF CounterTyped
  <2>6. QED
    BY <2>1, <2>2, <2>4, <2>5 DEF CounterInv, StandsStill
<1>11. ASSUME UNCHANGED Counter!vars
       PROVE  CounterInv' /\ ~Counter!ReadHi
  <2>1. UNCHANGED <<time, starts, enabled, clocks, reading, section, lo, shown>>
    BY <1>11 DEF Counter!vars
  <2>2. CounterTyped' /\ Counter!WithinWhole' /\ StandsStill'
    BY <1>1, <2>1 DEF CounterTyped, Counter!WithinWhole, StandsStill
  <2>3. ~Counter!ReadHi
    BY <2>1 DEF Counter!ReadHi
  <2>4. QED
    BY <2>2, <2>3 DEF CounterInv
<1>12. QED
  BY <1>5, <1>6, <1>7, <1>9, <1>10, <1>11 DEF Counter!Next

\* A time read by halves is the time there is, and the part is no longer than
\* the whole but for a clock at each of its starts.
THEOREM CounterRight ==
  ASSUME Counter!PerfAssumption
  PROVE  Counter!Spec => [](Counter!TypeOK /\ Counter!WithinWhole) /\ Counter!ReadsWhole
<1>1. Counter!Init => CounterInv
  <2>1. ASSUME Counter!Init
        PROVE  CounterInv
    <3>1. 0 \in 0 .. MaxClocks /\ 0 < HalfWord
      BY SMT DEF Counter!PerfAssumption
    <3>2. QED
      BY <2>1, <3>1 DEF Counter!Init, CounterInv, CounterTyped, StandsStill, Counter!WithinWhole,
                        Counter!Sections
  <2>2. QED
    BY <2>1
<1>2. CounterInv /\ [Counter!Next]_(Counter!vars) => CounterInv'
  BY CounterStep
<1>3. CounterInv /\ [Counter!Next]_(Counter!vars) => (Counter!ReadHi => shown'[section] = time'[section])
  BY CounterStep
<1>4. CounterInv => Counter!TypeOK /\ Counter!WithinWhole
  <2> SUFFICES ASSUME CounterInv PROVE Counter!TypeOK
    BY DEF CounterInv
  <2> DEFINE W == HalfWord * HalfWord
  <2>1. W \in Nat /\ MaxClocks \in Nat /\ MaxClocks < W /\ HalfWord \in Nat
    <3>1. HalfWord \in Nat /\ MaxClocks \in Nat /\ MaxClocks < W
      BY DEF Counter!PerfAssumption
    <3>2. QED
      BY <3>1, SMT
  <2> HIDE DEF W
  <2>2. 0 .. MaxClocks \subseteq 0 .. W - 1
    BY <2>1, SMT
  <2>3. time \in [Counter!Sections -> 0 .. W - 1]
    BY <2>2 DEF CounterInv, CounterTyped
  <2>4. \A s \in Counter!Sections : starts[s] \in 0 .. MaxClocks
    <3>1. \A s \in Counter!Sections : starts[s] \in Nat /\ starts[s] <= clocks
      BY DEF CounterInv, CounterTyped
    <3>2. clocks \in 0 .. MaxClocks
      BY DEF CounterInv, CounterTyped
    <3>3. QED
      BY <2>1, <3>1, <3>2, SMT
  <2>5. lo \in 0 .. HalfWord - 1
    <3>1. lo \in Nat /\ lo < HalfWord
      BY DEF CounterInv, CounterTyped
    <3>2. QED
      BY <2>1, <3>1, SMT
  <2>6. QED
    BY <2>3, <2>4, <2>5 DEF CounterInv, CounterTyped, Counter!TypeOK, W
<1>5. QED
  BY <1>1, <1>2, <1>3, <1>4, PTL DEF Counter!Spec, Counter!ReadsWhole

-----------------------------------------------------------------------------
\* SystemCalls.tla.

\* What a call may return and store, and that the builds return alike.
Tells(op, result) ==
  /\ result.value \in Int /\ result.error \in Nat
  /\ result.value < 0 /\ op \notin {"fstat", "stat"} => result.error > 0

Alike(compared, table, direct) ==
  compared /\ has \subseteq {"read", "write", "ioctl"} =>
    table.value = direct.value \/ (table.value < 0 /\ direct.value < 0)

CallsInv == Calls!TypeOK /\ Calls!BuildsAgree /\ Calls!FailureTold

LEMMA CallLeft ==
  ASSUME CallsInv, NEW op \in Calls!Ops \cup Calls!AloneOps \cup {"none", "kill"},
         NEW compared \in BOOLEAN, NEW result,
         Calls!Leave(op, compared, result), UNCHANGED <<has, ended>>,
         Tells(op, result["table"]),
         result["direct"].value \in Int, result["direct"].error \in Nat,
         Alike(compared, result["table"], result["direct"])
  PROVE  CallsInv'
<1>1. Calls!Build = {"table", "direct"}
  BY DEF Calls!Build
<1>2. /\ errno' = [b \in Calls!Build |-> IF result[b].error = 0 THEN errno[b] ELSE result[b].error]
      /\ answered' = [op |-> op, compared |-> compared,
                      value |-> [b \in Calls!Build |-> result[b].value]]
  BY DEF Calls!Leave
<1>3. \A b \in Calls!Build : result[b].value \in Int /\ result[b].error \in Nat
  BY <1>1 DEF Tells
<1>4. errno \in [Calls!Build -> Int] /\ \A b \in Calls!Build : errno[b] >= 0
  BY DEF CallsInv, Calls!TypeOK, Calls!FailureTold
<1>5. /\ answered'.op = op /\ answered'.compared = compared
      /\ \A b \in Calls!Build : answered'.value[b] = result[b].value
      /\ answered'.value \in [Calls!Build -> Int]
  BY <1>2, <1>3
<1>6. /\ errno' \in [Calls!Build -> Int]
      /\ \A b \in Calls!Build : errno'[b] = IF result[b].error = 0 THEN errno[b] ELSE result[b].error
  BY <1>2, <1>3, <1>4
<1>7. Calls!TypeOK'
  BY <1>5, <1>6 DEF CallsInv, Calls!TypeOK
<1>8. Calls!BuildsAgree'
  BY <1>1, <1>5 DEF Alike, Calls!BuildsAgree
<1>9. \A b \in Calls!Build : errno'[b] >= 0
  BY <1>3, <1>4, <1>6, SMT
<1>10. answered'.value["table"] < 0 /\ answered'.op \notin {"fstat", "stat"} => errno'["table"] > 0
  BY <1>1, <1>3, <1>5, <1>6, SMT DEF Tells
<1>11. QED
  BY <1>7, <1>8, <1>9, <1>10 DEF CallsInv, Calls!FailureTold

\* What is returned, whatever the driver returned.
LEMMA Codes ==
  /\ \A e \in Nat \ {0} : Calls!Fails(e).value = -1 /\ Calls!Fails(e).error = e
  /\ \A v : Calls!Raw(v).value = v /\ Calls!Raw(v).error = 0
  /\ \A v, e : Calls!Result(v, e).value = v /\ Calls!Result(v, e).error = e
  /\ \A v \in Int : Calls!AsCode(v) = IF v < 0 THEN Calls!Fails(-v) ELSE Calls!Raw(v)
  /\ {Calls!ECHILD, Calls!EACCES, Calls!EINVAL, Calls!ENOTTY, Calls!ESRCH, Calls!EBADFD, Calls!ENOSYS, Calls!ENOTSUP}
        \subseteq Nat \ {0}
<1>1. /\ \A e \in Nat \ {0} : Calls!Fails(e).value = -1 /\ Calls!Fails(e).error = e
      /\ \A v : Calls!Raw(v).value = v /\ Calls!Raw(v).error = 0
      /\ \A v, e : Calls!Result(v, e).value = v /\ Calls!Result(v, e).error = e
  BY DEF Calls!Fails, Calls!Raw, Calls!Result
<1>2. \A v \in Int : Calls!AsCode(v) = IF v < 0 THEN Calls!Fails(-v) ELSE Calls!Raw(v)
  BY DEF Calls!AsCode
<1>3. {Calls!ECHILD, Calls!EACCES, Calls!EINVAL, Calls!ENOTTY, Calls!ESRCH, Calls!EBADFD, Calls!ENOSYS, Calls!ENOTSUP}
        \subseteq Nat \ {0}
  BY SMT DEF Calls!ECHILD, Calls!EACCES, Calls!EINVAL, Calls!ENOTTY, Calls!ESRCH, Calls!EBADFD,
             Calls!ENOSYS, Calls!ENOTSUP
<1>4. QED
  BY <1>1, <1>2, <1>3

LEMMA FailsTells ==
  ASSUME NEW op, NEW e \in Nat \ {0}
  PROVE  Tells(op, Calls!Fails(e))
<1>1. Calls!Fails(e).value = -1 /\ Calls!Fails(e).error = e
  BY Codes
<1> HIDE DEF Calls!Fails
<1>2. QED
  BY <1>1, SMT DEF Tells

LEMMA AsCodeTells ==
  ASSUME NEW op, NEW v \in Int
  PROVE  Tells(op, Calls!AsCode(v))
<1>1. CASE v < 0
  <2>1. -v \in Nat \ {0}
    BY <1>1, SMT
  <2>2. Calls!AsCode(v) = Calls!Fails(-v)
    BY <1>1, Codes
  <2>3. QED
    BY <2>1, <2>2, FailsTells
<1>2. CASE ~(v < 0)
  <2>1. Calls!AsCode(v).value = v /\ Calls!AsCode(v).error = 0
    BY <1>2, Codes
  <2>2. QED
    BY <1>2, <2>1, SMT DEF Tells
<1>3. QED
  BY <1>1, <1>2

LEMMA Answers ==
  ASSUME Calls!CallsAssumption, NEW op \in Calls!Ops, NEW file \in Calls!Files,
         NEW r \in Calls!DriverReturns(op), NEW t \in Calls!Table(op, file, r)
  PROVE  /\ Tells(op, t)
         /\ Calls!Direct(op, file, r).value \in Int /\ Calls!Direct(op, file, r).error \in Nat
         /\ Alike(Calls!Linked(op) /\ r >= 0, t, Calls!Direct(op, file, r))
<1> DEFINE d == Calls!Direct(op, file, r)
<1>1. r \in Int /\ (op \notin {"read", "write"} /\ ~(r < 0) => r = 0)
  <2>1. Refused \subseteq Nat \ {0} /\ Amounts \subseteq Nat
    BY DEF Calls!CallsAssumption
  <2>2. ASSUME NEW e \in Refused, r = -e
        PROVE  r \in Int /\ r < 0
    BY <2>1, <2>2, SMT
  <2>3. ASSUME r \in (IF op \in {"read", "write"} THEN Amounts ELSE {0})
        PROVE  r \in Int /\ (op \notin {"read", "write"} => r = 0)
    <3>1. r \in Amounts \/ r = 0
      BY <2>3
    <3>2. r \in Amounts => r \in Int
      BY <2>1
    <3>3. 0 \in Int
      OBVIOUS
    <3>4. QED
      BY <2>3, <3>1, <3>2, <3>3
  <2>4. QED
    BY <2>2, <2>3 DEF Calls!DriverReturns
<1>2. /\ Calls!EBADFD \in Nat \ {0} /\ Calls!EACCES \in Nat \ {0} /\ Calls!ENOTSUP \in Nat \ {0}
      /\ Calls!ENOTTY \in Nat \ {0} /\ Calls!ENOSYS \in Nat \ {0}
  BY Codes
<1>3. /\ \A v : Calls!Raw(v).value = v /\ Calls!Raw(v).error = 0
      /\ \A v, e : Calls!Result(v, e).value = v /\ Calls!Result(v, e).error = e
      /\ \A e \in Nat \ {0} : Calls!Fails(e).value = -1 /\ Calls!Fails(e).error = e
  BY Codes
<1>4. /\ \A e \in Nat \ {0} : Tells(op, Calls!Fails(e))
      /\ \A v \in Int : Tells(op, Calls!AsCode(v))
      /\ \A v \in Nat : Calls!AsCode(v) = Calls!Raw(v)
  <2>1. \A v \in Nat : ~(v < 0) /\ v \in Int
    BY SMT
  <2>2. QED
    BY <2>1, FailsTells, AsCodeTells, Codes
<1>5. r >= 0 => r \in Nat
  BY <1>1, SMT
<1>6. -1 \in Int /\ -1 < 0 /\ 0 \in Int /\ 0 \in Nat /\ 1 \in Int /\ ~(0 < 0) /\ ~(1 < 0)
  OBVIOUS
<1> HIDE DEF Calls!EBADFD, Calls!EACCES, Calls!ENOTSUP, Calls!ENOTTY, Calls!ENOSYS
<1>7. CASE op = "read"
  <2>1. d = IF Calls!DirectReads(file) THEN Calls!Raw(r) ELSE Calls!Fails(Calls!EBADFD)
    BY <1>7 DEF Calls!Direct, Calls!DirectRead
  <2>2. Calls!DirectReads(file) <=> file = 0
    BY DEF Calls!DirectReads
  <2>3. t = IF file = Calls!NotOpened THEN Calls!Fails(Calls!EBADFD)
            ELSE IF file = 0 /\ "read" \in has THEN Calls!AsCode(r) ELSE Calls!Fails(Calls!EACCES)
    BY <1>7 DEF Calls!Table, Calls!TableNotOpened, Calls!TableOpened, Calls!TableRead,
                Calls!ReadsFrom
  <2>4. Calls!Linked(op) => "read" \in has
    BY <1>7 DEF Calls!Linked
  <2>5. Calls!NotOpened # 0
    BY SMT DEF Calls!NotOpened
  <2>6. QED
    BY <1>1, <1>2, <1>3, <1>4, <1>5, <1>6, <2>1, <2>2, <2>3, <2>4, <2>5 DEF Alike
<1>8. CASE op = "write"
  <2>1. d = IF Calls!WritesTo(file) THEN Calls!Raw(r) ELSE Calls!Fails(Calls!EBADFD)
    BY <1>8 DEF Calls!Direct, Calls!DirectWrite
  <2>2. t = IF file = Calls!NotOpened THEN Calls!Fails(Calls!EBADFD)
            ELSE IF Calls!WritesTo(file) /\ "write" \in has THEN Calls!AsCode(r) ELSE Calls!Fails(Calls!EACCES)
    BY <1>8 DEF Calls!Table, Calls!TableNotOpened, Calls!TableOpened, Calls!TableWrite
  <2>3. Calls!Linked(op) => "write" \in has
    BY <1>8 DEF Calls!Linked
  <2>4. Calls!WritesTo(file) => file # Calls!NotOpened
    BY SMT DEF Calls!NotOpened, Calls!WritesTo
  <2>5. QED
    BY <1>1, <1>2, <1>3, <1>4, <1>5, <1>6, <2>1, <2>2, <2>3, <2>4 DEF Alike
<1>9. CASE op = "lseek"
  <2>1. d = Calls!Fails(Calls!ENOSYS)
    BY <1>9 DEF Calls!Direct, Calls!DirectLseek
  <2>2. t = IF file = Calls!NotOpened THEN Calls!Fails(Calls!EBADFD)
            ELSE IF "lseek" \in has THEN Calls!AsCode(r) ELSE Calls!Fails(Calls!ENOTSUP)
    BY <1>9 DEF Calls!Table, Calls!TableNotOpened, Calls!TableOpened, Calls!TableLseek
  <2>3. has \subseteq {"read", "write", "ioctl"} => "lseek" \notin has
    OBVIOUS
  <2>4. QED
    BY <1>1, <1>2, <1>3, <1>4, <1>6, <2>1, <2>2, <2>3 DEF Alike
<1>10. CASE op = "ioctl"
  <2>1. d = IF file \in Calls!Std THEN Calls!Raw(r) ELSE Calls!Fails(Calls!EBADFD)
    BY <1>10 DEF Calls!Direct, Calls!DirectIoctl
  <2>2. t = IF file = Calls!NotOpened THEN Calls!Result(-Calls!EBADFD, Calls!EBADFD)
            ELSE IF "ioctl" \in has THEN Calls!Result(r, IF r < 0 THEN -r ELSE 0)
            ELSE Calls!Result(-Calls!ENOTTY, Calls!ENOTTY)
    BY <1>10 DEF Calls!Table, Calls!TableNotOpened, Calls!TableOpened, Calls!TableIoctl
  <2>3. Calls!Linked(op) => "ioctl" \in has
    BY <1>10 DEF Calls!Linked
  <2>4. file = Calls!NotOpened \/ file \in Calls!Std
    BY DEF Calls!Files
  <2>5. Calls!NotOpened \notin Calls!Std
    BY SMT DEF Calls!NotOpened, Calls!Std
  <2>6. /\ \A e \in Nat \ {0} : -e \in Int /\ -e < 0 /\ e \in Nat /\ e > 0
        /\ (IF r < 0 THEN -r ELSE 0) \in Nat /\ (r < 0 => (IF r < 0 THEN -r ELSE 0) > 0)
    BY <1>1, SMT
  <2>7. Tells(op, t)
    BY <1>1, <1>2, <1>3, <2>2, <2>6 DEF Tells
  <2>8. QED
    BY <1>1, <1>2, <1>3, <1>6, <2>1, <2>2, <2>3, <2>4, <2>5, <2>6, <2>7 DEF Alike
<1>11. CASE op = "fstat"
  <2>1. d = Calls!Raw(IF file \in Calls!Std THEN 0 ELSE -1)
    BY <1>11 DEF Calls!Direct, Calls!DirectFstat
  <2>2. t = IF file = Calls!NotOpened THEN Calls!Fails(Calls!EBADFD)
            ELSE IF "fstat" \in has THEN Calls!Raw(r) ELSE Calls!Raw(0)
    BY <1>11 DEF Calls!Table, Calls!TableNotOpened, Calls!TableOpened, Calls!TableFstat
  <2>3. file = Calls!NotOpened \/ file \in Calls!Std
    BY DEF Calls!Files
  <2>4. Calls!NotOpened \notin Calls!Std
    BY SMT DEF Calls!NotOpened, Calls!Std
  <2>5. has \subseteq {"read", "write", "ioctl"} => "fstat" \notin has
    OBVIOUS
  <2>6. Tells(op, t)
    BY <1>1, <1>3, <1>4, <1>6, <1>2, <1>11, <2>2 DEF Tells
  <2>7. QED
    BY <1>2, <1>3, <1>6, <2>1, <2>2, <2>3, <2>4, <2>5, <2>6 DEF Alike
<1>12. CASE op = "stat"
  <2>1. ~Calls!Linked(op)
    BY <1>12 DEF Calls!Linked
  <2>2. d = Calls!DirectStat
    BY <1>12 DEF Calls!Direct
  <2>3. d.value \in Int /\ d.error \in Nat
    <3>1. Calls!DirectFstat(Calls!NotOpened).value \in Int
      BY <1>3, <1>6 DEF Calls!DirectFstat
    <3>2. Calls!DirectOpen.error \in Nat /\ Calls!DirectClose.error \in Nat
      BY <1>2, <1>3 DEF Calls!DirectOpen, Calls!DirectClose
    <3>3. QED
      BY <1>3, <2>2, <3>1, <3>2 DEF Calls!DirectStat, Calls!LastError
  <2>4. Tells(op, t)
    <3>1. t \in Calls!TableStat(r)
      BY <1>12 DEF Calls!Table
    <3>2. CASE t = Calls!Fails(Calls!EBADFD)
      BY <1>2, <1>4, <3>2
    <3>3. CASE t # Calls!Fails(Calls!EBADFD)
      <4>1. PICK u \in Calls!TableFstat(r), closed \in {0} \cup Refused :
              t = Calls!Result(u.value, Calls!LastError(u.error, closed))
        BY <3>1, <3>3 DEF Calls!TableStat
      <4>2. u.value \in Int /\ u.error \in Nat
        BY <1>1, <1>3, <1>6 DEF Calls!TableFstat
      <4>3. closed \in Nat
        BY <1>6 DEF Calls!CallsAssumption
      <4>4. QED
        BY <1>3, <1>12, <4>1, <4>2, <4>3 DEF Tells, Calls!LastError
    <3>4. QED
      BY <3>2, <3>3
  <2>5. QED
    BY <2>1, <2>3, <2>4 DEF Alike
<1>13. CASE op = "isatty"
  <2>1. d = Calls!Raw(IF file \in Calls!Std THEN 1 ELSE 0)
    BY <1>13 DEF Calls!Direct, Calls!DirectIsatty
  <2>2. IF file = Calls!NotOpened THEN t = Calls!Result(0, Calls!EBADFD)
        ELSE IF "fstat" \in has THEN t \in {Calls!Raw(0), Calls!Raw(1)} ELSE t = Calls!Raw(1)
    BY <1>13 DEF Calls!Table, Calls!TableNotOpened, Calls!TableOpened, Calls!TableIsatty,
                 Calls!WithoutFstat
  <2>3. file = Calls!NotOpened \/ file \in Calls!Std
    BY DEF Calls!Files
  <2>4. Calls!NotOpened \notin Calls!Std
    BY SMT DEF Calls!NotOpened, Calls!Std
  <2>5. has \subseteq {"read", "write", "ioctl"} => "fstat" \notin has
    OBVIOUS
  <2>6. Tells(op, t)
    BY <1>2, <1>3, <1>6, <2>2 DEF Tells
  <2>7. QED
    BY <1>2, <1>3, <1>6, <2>1, <2>2, <2>3, <2>4, <2>5, <2>6 DEF Alike
<1>14. QED
  BY <1>7, <1>8, <1>9, <1>10, <1>11, <1>12, <1>13 DEF Calls!Ops

LEMMA CallsStep ==
  ASSUME Calls!CallsAssumption, CallsInv, [Calls!Next]_(Calls!vars)
  PROVE  CallsInv'
<1>1. ASSUME NEW op \in Calls!Ops, NEW file \in Calls!Files, NEW r \in Calls!DriverReturns(op),
             Calls!Call(op, file, r)
      PROVE  CallsInv'
  <2> DEFINE compared == Calls!Linked(op) /\ r >= 0
  <2>1. PICK t \in Calls!Table(op, file, r) :
          Calls!Leave(op, compared, [table |-> t, direct |-> Calls!Direct(op, file, r)])
    BY <1>1 DEF Calls!Call
  <2>2. /\ Tells(op, t)
        /\ Calls!Direct(op, file, r).value \in Int /\ Calls!Direct(op, file, r).error \in Nat
        /\ Alike(compared, t, Calls!Direct(op, file, r))
    BY Answers
  <2>3. compared \in BOOLEAN
    OBVIOUS
  <2>4. UNCHANGED <<has, ended>>
    BY <1>1 DEF Calls!Call
  <2> HIDE DEF compared
  <2>5. PICK result : result = [table |-> t, direct |-> Calls!Direct(op, file, r)]
    OBVIOUS
  <2>6. result["table"] = t /\ result["direct"] = Calls!Direct(op, file, r)
    BY <2>5
  <2>7. QED
    BY <2>1, <2>2, <2>3, <2>4, <2>5, <2>6, CallLeft
<1>2. /\ {Calls!ENOSYS, Calls!ECHILD, Calls!ESRCH, Calls!EINVAL} \subseteq Nat \ {0}
      /\ \A v : Calls!Raw(v).value = v /\ Calls!Raw(v).error = 0
      /\ \A v, e : Calls!Result(v, e).value = v /\ Calls!Result(v, e).error = e
      /\ \A e \in Nat \ {0} : Calls!Fails(e).value = -1 /\ Calls!Fails(e).error = e
  BY Codes
<1>3. ASSUME NEW op \in Calls!AloneOps \cup {"kill"}, NEW reply, Tells(op, reply),
             Calls!Leave(op, TRUE, [b \in Calls!Build |-> reply]), UNCHANGED <<has, ended>>
      PROVE  CallsInv'
  <2>1. PICK result : result = [b \in Calls!Build |-> reply]
    OBVIOUS
  <2>2. result["table"] = reply /\ result["direct"] = reply
    BY <2>1 DEF Calls!Build
  <2>3. result["direct"].value \in Int /\ result["direct"].error \in Nat
    BY <1>3, <2>2 DEF Tells
  <2>4. Alike(TRUE, result["table"], result["direct"])
    BY <2>2 DEF Alike
  <2>5. QED
    BY <1>3, <2>1, <2>2, <2>3, <2>4, CallLeft
<1>4. ASSUME NEW op \in Calls!AloneOps, Calls!Alone(op)
      PROVE  CallsInv'
  <2>1. PICK reply \in Calls!AloneResults(op) : Calls!Leave(op, TRUE, [b \in Calls!Build |-> reply])
    BY <1>4 DEF Calls!Alone
  <2>2. \/ reply \in {Calls!Fails(Calls!ENOSYS), Calls!Fails(Calls!ECHILD), Calls!Raw(0), Calls!Result(0, Calls!ENOSYS)}
        \/ \E v \in Nat : reply = Calls!Raw(v)
    <3>1. ASSUME reply \in Calls!Times
          PROVE  reply = Calls!Result(0, Calls!ENOSYS) \/ \E v \in Nat : reply = Calls!Raw(v)
      BY <3>1 DEF Calls!Times, Calls!CallsAssumption
    <3>2. \/ reply \in Calls!Fork \/ reply \in Calls!Execve \/ reply \in Calls!LinkCall
          \/ reply \in Calls!Unlink \/ reply \in Calls!Rename \/ reply \in Calls!Wait
          \/ reply \in Calls!Getpid \/ reply \in Calls!Times
      BY <2>1 DEF Calls!AloneResults, Calls!AloneOps
    <3>3. QED
      BY <3>1, <3>2 DEF Calls!Fork, Calls!Execve, Calls!LinkCall, Calls!Unlink, Calls!Rename,
                        Calls!Wait, Calls!Getpid
  <2>3. Tells(op, reply)
    <3>1. CASE reply \in {Calls!Fails(Calls!ENOSYS), Calls!Fails(Calls!ECHILD)}
      BY <1>2, <3>1, FailsTells
    <3>2. CASE reply.value \in Nat /\ reply.error \in Nat
      BY <3>2, SMT DEF Tells
    <3>3. 0 \in Nat
      OBVIOUS
    <3>4. QED
      BY <1>2, <2>2, <3>1, <3>2, <3>3
  <2>4. QED
    BY <1>3, <1>4, <2>1, <2>3 DEF Calls!Alone
<1>5. ASSUME NEW pid \in {-1, 0, 1}, NEW sig, Calls!Kill(pid, sig)
      PROVE  CallsInv'
  <2>1. Calls!KillResult(pid, sig) \in {Calls!Fails(Calls!ESRCH), Calls!Raw(0), Calls!Fails(Calls!EINVAL)}
    BY DEF Calls!KillResult
  <2>2. Tells("kill", Calls!KillResult(pid, sig))
    <3>1. Tells("kill", Calls!Raw(0))
      <4>1. Calls!Raw(0).value = 0 /\ Calls!Raw(0).error = 0
        BY <1>2
      <4> HIDE DEF Calls!Raw
      <4>2. QED
        BY <4>1, SMT DEF Tells
    <3>2. QED
      BY <1>2, <2>1, <3>1, FailsTells
  <2>3. QED
    BY <1>3, <1>5, <2>2 DEF Calls!Kill
<1>6. ASSUME NEW pid, NEW sig, Calls!KillEnds(pid, sig)
      PROVE  CallsInv'
  BY <1>6 DEF Calls!KillEnds, CallsInv, Calls!TypeOK, Calls!BuildsAgree, Calls!FailureTold
<1>7. CASE UNCHANGED Calls!vars
  BY <1>7 DEF Calls!vars, CallsInv, Calls!TypeOK, Calls!BuildsAgree, Calls!FailureTold
<1>8. QED
  BY <1>1, <1>4, <1>5, <1>6, <1>7 DEF Calls!Next

\* Whatever a driver has and returns, errno never holds a number that is no
\* code, a call that fails leaves one, and the builds return alike on a device
\* of characters.
THEOREM CallsTell ==
  ASSUME Calls!CallsAssumption
  PROVE  Calls!Spec => [](Calls!TypeOK /\ Calls!BuildsAgree /\ Calls!FailureTold)
<1>1. Calls!Init => CallsInv
  <2>1. ASSUME Calls!Init
        PROVE  CallsInv
    <3>1. /\ has \in Functions /\ errno = [b \in Calls!Build |-> 0] /\ ended = FALSE
          /\ answered = [op |-> "none", compared |-> FALSE, value |-> [b \in Calls!Build |-> 0]]
      BY <2>1 DEF Calls!Init, Calls!NoCall
    <3>2. /\ answered.op = "none" /\ answered.compared = FALSE
          /\ answered.value = [b \in Calls!Build |-> 0] /\ ~(0 < 0) /\ 0 \in Int /\ 0 >= 0
      BY <3>1
    <3>3. Calls!TypeOK
      BY <3>1, <3>2 DEF Calls!TypeOK
    <3>4. Calls!BuildsAgree
      BY <3>2 DEF Calls!BuildsAgree
    <3>5. Calls!FailureTold
      BY <3>1, <3>2 DEF Calls!FailureTold, Calls!Build
    <3>6. QED
      BY <3>3, <3>4, <3>5 DEF CallsInv
  <2>2. QED
    BY <2>1
<1>2. CallsInv /\ [Calls!Next]_(Calls!vars) => CallsInv'
  BY CallsStep
<1>3. QED
  BY <1>1, <1>2, PTL DEF Calls!Spec, CallsInv

-----------------------------------------------------------------------------
\* DeviceNames.tla.

\* What NameSet is made of.
LEMMA NamesAre ==
  ASSUME Names!NamesAssumption, NEW name \in Names!NameSet
  PROVE  /\ name \in Seq(Names!Chars) /\ Len(name) \in 1 .. NameLen
         /\ \A i \in 1 .. Len(name) : name[i] \in Names!Chars
         /\ Nul \notin Names!Chars /\ Slash \in Names!Chars /\ NameLen \in Nat
<1>1. NameLen \in Nat
  BY DEF Names!NamesAssumption
<1>2. PICK m \in 0 .. NameLen : name \in [1 .. m -> Names!Chars]
  BY DEF Names!NameSet, Names!SeqOf
<1>3. m \in Nat /\ name \in Seq(Names!Chars) /\ Len(name) = m
  BY <1>1, <1>2
<1>4. name # <<>>
  BY DEF Names!NameSet
<1>5. m # 0
  BY <1>3, <1>4
<1>6. Nul \notin Names!Chars /\ Slash \in Names!Chars
  BY DEF Names!NamesAssumption, Names!Chars
<1>7. QED
  BY <1>1, <1>3, <1>5, <1>6

\* A name as it lies in memory.
LEMMA LiesInMemory ==
  ASSUME Names!NamesAssumption, NEW name \in Names!NameSet, NEW behind,
         NEW i \in 1 .. NameLen + 1
  PROVE  Names!InMemory(name, behind)[i] =
             IF i <= Len(name) THEN name[i] ELSE IF i = Len(name) + 1 THEN Nul ELSE behind
<1> DEFINE rest == [k \in 1 .. NameLen |-> behind]
           T == Names!Chars \cup {Nul, behind}
<1>1. name \in Seq(T) /\ <<Nul>> \in Seq(T) /\ Len(name) \in 1 .. NameLen /\ NameLen \in Nat
  BY NamesAre
<1>2. rest \in Seq(T) /\ Len(rest) = NameLen /\ \A k \in 1 .. NameLen : rest[k] = behind
  <2>1. rest \in [1 .. NameLen -> T]
    OBVIOUS
  <2>2. QED
    BY <1>1, <2>1
<1> HIDE DEF rest, T
<1> DEFINE start == name \o <<Nul>>
<1>3. /\ start \in Seq(T) /\ Len(start) = Len(name) + 1
      /\ \A k \in 1 .. Len(name) : start[k] = name[k]
      /\ start[Len(name) + 1] = Nul
  BY <1>1
<1> HIDE DEF start
<1>4. Names!InMemory(name, behind) = start \o rest
  BY DEF Names!InMemory, start, rest
<1>5. CASE i <= Len(name) + 1
  <2>1. (start \o rest)[i] = start[i]
    BY <1>1, <1>2, <1>3, <1>5
  <2>2. QED
    BY <1>1, <1>3, <1>4, <1>5, <2>1
<1>6. CASE ~(i <= Len(name) + 1)
  <2>1. i - (Len(name) + 1) \in 1 .. NameLen
    BY <1>1, <1>6
  <2>2. (start \o rest)[i] = rest[i - (Len(name) + 1)]
    BY <1>1, <1>2, <1>3, <1>6
  <2>3. QED
    BY <1>1, <1>2, <1>4, <1>6, <2>1, <2>2
<1>7. QED
  BY <1>5, <1>6

\* memcmp over a name and the null behind it finds the same name only.
LEMMA DeviceMatch ==
  ASSUME Names!NamesAssumption, NEW a \in Names!NameSet, NEW b \in Names!NameSet
  PROVE  Names!IsDevice(a, b) <=> a = b
<1> DEFINE x == Names!InMemory(a, Nul)
           y == Names!InMemory(b, Nul)
<1>1. /\ a \in Seq(Names!Chars) /\ Len(a) \in 1 .. NameLen /\ b \in Seq(Names!Chars)
      /\ Len(b) \in 1 .. NameLen /\ NameLen \in Nat /\ Nul \notin Names!Chars
      /\ \A i \in 1 .. Len(a) : a[i] \in Names!Chars
      /\ \A i \in 1 .. Len(b) : b[i] \in Names!Chars
  BY NamesAre
<1>2. \A i \in 1 .. NameLen + 1 : /\ x[i] = IF i <= Len(a) THEN a[i] ELSE Nul
                                  /\ y[i] = IF i <= Len(b) THEN b[i] ELSE Nul
  BY LiesInMemory
<1> HIDE DEF x, y
<1>3. Names!IsDevice(a, b) <=> \A i \in 1 .. Len(b) + 1 : x[i] = y[i]
  BY DEF Names!IsDevice, Names!Agree, x, y
<1>4. ASSUME \A i \in 1 .. Len(b) + 1 : x[i] = y[i]
      PROVE  a = b
  <2>1. Len(b) + 1 \in 1 .. NameLen + 1 /\ \A i \in 1 .. Len(b) : i \in 1 .. NameLen + 1
    BY <1>1
  <2>2. x[Len(b) + 1] = Nul
    BY <1>1, <1>2, <1>4, <2>1
  <2>3. ~(Len(b) + 1 <= Len(a))
    BY <1>1, <1>2, <2>1, <2>2
  <2>4. ~(Len(a) + 1 <= Len(b))
    <3>1. SUFFICES ASSUME Len(a) + 1 <= Len(b) PROVE FALSE
      OBVIOUS
    <3>2. Len(a) + 1 \in 1 .. Len(b) /\ Len(a) + 1 \in 1 .. NameLen + 1
      BY <1>1, <3>1
    <3>3. x[Len(a) + 1] = Nul /\ y[Len(a) + 1] \in Names!Chars
      BY <1>1, <1>2, <3>1, <3>2
    <3>4. QED
      BY <1>1, <1>4, <3>2, <3>3
  <2>5. Len(a) = Len(b)
    BY <1>1, <2>3, <2>4
  <2>6. \A i \in 1 .. Len(b) : a[i] = b[i]
    BY <1>1, <1>2, <1>4, <2>1, <2>5
  <2>7. QED
    BY <1>1, <2>5, <2>6
<1>5. a = b => x = y
  BY DEF x, y
<1>6. QED
  BY <1>3, <1>4, <1>5

\* A file system owns the names of its directory and below it, with a slash at
\* the end of the directory or without, whatever is in memory behind them.
LEMMA MountMatch ==
  ASSUME Names!NamesAssumption, NEW fs \in Names!NameSet, NEW name \in Names!NameSet,
         NEW behind
  PROVE  Names!Owns(fs, name, behind) <=> Names!Below(fs, name)
<1> DEFINE x == Names!InMemory(fs, behind)
           y == Names!InMemory(name, behind)
           m == Names!MountLen(fs)
           dir == IF Names!Last(fs) = Slash THEN Names!Front(fs) ELSE fs
<1>1. /\ fs \in Seq(Names!Chars) /\ Len(fs) \in 1 .. NameLen /\ name \in Seq(Names!Chars)
      /\ Len(name) \in 1 .. NameLen /\ NameLen \in Nat /\ Nul \notin Names!Chars
      /\ \A i \in 1 .. Len(fs) : fs[i] \in Names!Chars
      /\ \A i \in 1 .. Len(name) : name[i] \in Names!Chars
      /\ Slash \in Names!Chars
  BY NamesAre
<1>2. \A i \in 1 .. NameLen + 1 :
          /\ x[i] = IF i <= Len(fs) THEN fs[i] ELSE IF i = Len(fs) + 1 THEN Nul ELSE behind
          /\ y[i] = IF i <= Len(name) THEN name[i]
                    ELSE IF i = Len(name) + 1 THEN Nul ELSE behind
  BY LiesInMemory
<1>3. /\ m \in 0 .. Len(fs)
      /\ dir \in Seq(Names!Chars) /\ Len(dir) = m /\ \A i \in 1 .. m : dir[i] = fs[i]
  <2>1. CASE fs[Len(fs)] = Slash
    <3>1. m = Len(fs) - 1 /\ dir = SubSeq(fs, 1, Len(fs) - 1)
      BY <2>1 DEF Names!MountLen, Names!Last, Names!Front
    <3> HIDE DEF m, dir
    <3>2. QED
      BY <1>1, <3>1
  <2>2. CASE fs[Len(fs)] # Slash
    <3>1. m = Len(fs) /\ dir = fs
      BY <2>2 DEF Names!MountLen, Names!Last
    <3> HIDE DEF m, dir
    <3>2. QED
      BY <1>1, <3>1
  <2>3. QED
    BY <2>1, <2>2
<1>4. Names!Below(fs, name) <=> name = dir \/ Names!IsPrefix(dir \o <<Slash>>, name)
  BY DEF Names!Below
<1>5. Names!Owns(fs, name, behind) <=>
          y[m + 1] \in {Slash, Nul} /\ \A i \in 1 .. m : x[i] = y[i]
  BY DEF Names!Owns, Names!Agree
<1> HIDE DEF x, y, m, dir
<1>6. m \in Nat /\ m + 1 \in 1 .. NameLen + 1 /\ \A i \in 1 .. m : i \in 1 .. NameLen + 1
  BY <1>1, <1>3
<1>7. \A i \in 1 .. m : x[i] = dir[i] /\ dir[i] \in Names!Chars
  BY <1>1, <1>2, <1>3, <1>6
<1> DEFINE inside == dir \o <<Slash>>
<1>8. /\ inside \in Seq(Names!Chars) /\ Len(inside) = m + 1 /\ inside[m + 1] = Slash
      /\ \A i \in 1 .. m : inside[i] = dir[i]
  BY <1>1, <1>3, <1>6
<1> HIDE DEF inside
<1>9. Names!IsPrefix(inside, name) <=>
          m + 1 <= Len(name) /\ name[m + 1] = Slash /\ \A i \in 1 .. m : name[i] = dir[i]
  <2>1. Names!IsPrefix(inside, name) <=>
            /\ m + 1 <= Len(name)
            /\ SubSeq(inside, 1, m + 1) = SubSeq(name, 1, m + 1)
    BY <1>8 DEF Names!IsPrefix
  <2>2. ASSUME m + 1 <= Len(name)
        PROVE  SubSeq(inside, 1, m + 1) = SubSeq(name, 1, m + 1)
                 <=> \A i \in 1 .. m + 1 : inside[i] = name[i]
    <3> DEFINE p == SubSeq(inside, 1, m + 1)
               q == SubSeq(name, 1, m + 1)
    <3>1. /\ p \in Seq(Names!Chars) /\ q \in Seq(Names!Chars)
          /\ Len(p) = m + 1 /\ Len(q) = m + 1
          /\ \A i \in 1 .. m + 1 : p[i] = inside[i] /\ q[i] = name[i]
      BY <1>1, <1>6, <1>8, <2>2
    <3> HIDE DEF p, q
    <3>2. p = q <=> \A i \in 1 .. m + 1 : p[i] = q[i]
      BY <1>6, <3>1
    <3>3. (\A i \in 1 .. m + 1 : p[i] = q[i]) <=> (\A i \in 1 .. m + 1 : inside[i] = name[i])
      BY <3>1
    <3>4. QED
      BY <3>2, <3>3 DEF p, q
  <2>3. (\A i \in 1 .. m + 1 : inside[i] = name[i])
          <=> name[m + 1] = Slash /\ \A i \in 1 .. m : name[i] = dir[i]
    <3>1. \A i : i \in 1 .. m + 1 <=> (i \in 1 .. m \/ i = m + 1)
      BY <1>6
    <3>2. QED
      BY <1>8, <3>1
  <2>4. QED
    BY <2>1, <2>2, <2>3
<1>10. ASSUME y[m + 1] \in {Slash, Nul}, \A i \in 1 .. m : x[i] = y[i]
       PROVE  name = dir \/ Names!IsPrefix(inside, name)
  <2>1. m <= Len(name)
    <3>1. SUFFICES ASSUME Len(name) + 1 <= m PROVE FALSE
      BY <1>1, <1>6
    <3>2. Len(name) + 1 \in 1 .. m
      BY <1>1, <1>6, <3>1
    <3>3. y[Len(name) + 1] = Nul
      BY <1>1, <1>2, <1>6, <3>2
    <3>4. QED
      BY <1>1, <1>7, <1>10, <3>2, <3>3
  <2>2. \A i \in 1 .. m : name[i] = dir[i]
    BY <1>1, <1>2, <1>6, <1>7, <1>10, <2>1
  <2>3. CASE m = Len(name)
    BY <1>1, <1>3, <2>2, <2>3
  <2>4. CASE m # Len(name)
    <3>1. m + 1 <= Len(name) /\ m + 1 \in 1 .. Len(name)
      BY <1>1, <1>6, <2>1, <2>4
    <3>2. name[m + 1] = Slash
      BY <1>1, <1>2, <1>6, <1>10, <3>1
    <3>3. QED
      BY <1>9, <2>2, <3>1, <3>2
  <2>5. QED
    BY <2>3, <2>4
<1>11. ASSUME name = dir \/ Names!IsPrefix(inside, name)
       PROVE  y[m + 1] \in {Slash, Nul} /\ \A i \in 1 .. m : x[i] = y[i]
  <2>1. m <= Len(name) /\ \A i \in 1 .. m : name[i] = dir[i]
    BY <1>1, <1>3, <1>6, <1>9, <1>11
  <2>2. \A i \in 1 .. m : x[i] = y[i]
    BY <1>1, <1>2, <1>6, <1>7, <2>1
  <2>3. CASE name = dir
    <3>1. Len(name) = m
      BY <1>3, <2>3
    <3>2. QED
      BY <1>1, <1>2, <1>6, <2>2, <3>1
  <2>4. CASE Names!IsPrefix(inside, name)
    BY <1>1, <1>2, <1>6, <1>9, <2>2, <2>4
  <2>5. QED
    BY <1>11, <2>3, <2>4
<1>12. QED
  BY <1>4, <1>5, <1>10, <1>11 DEF inside

\* What the search of a list finds.
LEMMA FindsInList ==
  ASSUME NEW list \in Seq(Names!NameSet), NEW matches \in SUBSET DOMAIN list
  PROVE  /\ matches = {} => Names!FirstWith(list, matches) = <<>>
         /\ matches # {} => /\ \E i \in matches : Names!FirstWith(list, matches) = list[i]
                            /\ Names!FirstWith(list, matches) # <<>>
<1>1. Len(list) \in Nat /\ DOMAIN list = 1 .. Len(list)
  OBVIOUS
<1>2. matches \in SUBSET Nat
  BY <1>1
<1>3. ASSUME matches # {}
      PROVE  Names!Min(matches) \in matches
  <2>1. \E x \in matches : \A y \in matches : x <= y
    BY <1>2, <1>3, SmallestOf
  <2>2. QED
    BY <2>1 DEF Names!Min
<1>4. \A i \in DOMAIN list : list[i] # <<>>
  BY <1>1 DEF Names!NameSet
<1>5. QED
  BY <1>3, <1>4 DEF Names!FirstWith

NamesTyped ==
  /\ devices \in Seq(Names!NameSet) /\ fileSystems \in Seq(Names!NameSet)
  /\ channels \in [Names!Channel -> Seq(Names!NameSet)]

LEMMA NamesStart == Names!Init => NamesTyped
<1> SUFFICES ASSUME Names!Init PROVE NamesTyped
  OBVIOUS
<1>1. PICK null \in Names!NameSet : devices = <<null>>
  BY DEF Names!Init
<1>2. <<null>> \in Seq(Names!NameSet) /\ <<>> \in Seq(Names!NameSet)
  OBVIOUS
<1>3. channels \in [Names!Channel -> Seq(Names!NameSet)] /\ fileSystems = <<>>
  BY <1>2 DEF Names!Init
<1>4. QED
  BY <1>1, <1>2, <1>3 DEF NamesTyped

LEMMA NamesStep == NamesTyped /\ [Names!Next]_(Names!vars) => NamesTyped'
<1> SUFFICES ASSUME NamesTyped, [Names!Next]_(Names!vars) PROVE NamesTyped'
  OBVIOUS
<1>1. \A n \in Names!NameSet, list \in Seq(Names!NameSet) :
          Names!Inserted(n, list) \in Seq(Names!NameSet)
  BY DEF Names!Inserted
<1>2. ASSUME NEW n \in Names!NameSet, Names!RegisterDevice(n) \/ Names!RegisterFileSystem(n)
      PROVE  NamesTyped'
  BY <1>1, <1>2 DEF NamesTyped, Names!RegisterDevice, Names!RegisterFileSystem
<1>3. ASSUME NEW n \in Names!NameSet, NEW k \in Names!Channel, Names!RegisterChannel(k, n)
      PROVE  NamesTyped'
  <2>1. Names!Inserted(n, channels[k]) \in Seq(Names!NameSet)
    BY <1>1 DEF NamesTyped
  <2>2. channels' = [channels EXCEPT ![k] = Names!Inserted(n, channels[k])]
    BY <1>3 DEF Names!RegisterChannel
  <2>3. UNCHANGED <<devices, fileSystems>>
    BY <1>3 DEF Names!RegisterChannel
  <2>4. QED
    BY <2>1, <2>2, <2>3 DEF NamesTyped
<1>4. ASSUME NEW n, NEW b, Names!OpenChannel(n) \/ Names!Open(n, b)
      PROVE  NamesTyped'
  BY <1>4 DEF NamesTyped, Names!OpenChannel, Names!Open
<1>5. ASSUME UNCHANGED Names!vars
      PROVE  NamesTyped'
  BY <1>5 DEF NamesTyped, Names!vars
<1>6. QED
  BY <1>2, <1>3, <1>4, <1>5 DEF Names!Next

\* What the search of a list of devices finds.
LEMMA DeviceFound ==
  ASSUME Names!NamesAssumption, NEW list \in Seq(Names!NameSet), NEW name \in Names!NameSet
  PROVE  Names!FindDev(name, list) = IF \E i \in DOMAIN list : list[i] = name THEN name ELSE <<>>
<1> DEFINE matches == {i \in DOMAIN list : Names!IsDevice(list[i], name)}
<1>1. \A i \in DOMAIN list : list[i] \in Names!NameSet
  OBVIOUS
<1>2. \A i \in DOMAIN list : i \in matches <=> list[i] = name
  BY <1>1, DeviceMatch
<1>3. matches \in SUBSET DOMAIN list /\ Names!FindDev(name, list) = Names!FirstWith(list, matches)
  BY DEF Names!FindDev
<1> HIDE DEF matches
<1>4. QED
  BY <1>2, <1>3, FindsInList

\* What an open changes of what was found.
LEMMA OpensRight ==
  ASSUME Names!NamesAssumption, NamesTyped, NEW name \in Names!NameSet, NEW behind,
         Names!Open(name, behind)
  PROVE  /\ found'.kind \in {"device", "fs", "none"} /\ asked' = name
         /\ found'.kind = "device" <=> \E i \in DOMAIN devices : devices[i] = name
         /\ found'.kind = "device" => found'.name = name
         /\ found'.kind = "fs" => Names!Below(found'.name, name)
         /\ found'.kind = "none" =>
                \A i \in DOMAIN fileSystems : ~Names!Below(fileSystems[i], name)
<1> DEFINE owners == {i \in DOMAIN fileSystems : Names!Owns(fileSystems[i], name, behind)}
           device == Names!FindDev(name, devices)
           fs == Names!FirstWith(fileSystems, owners)
<1>1. asked' = name /\ found' = Names!Result(device, fs)
  BY DEF Names!Open
<1>2. devices \in Seq(Names!NameSet) /\ fileSystems \in Seq(Names!NameSet) /\ name # <<>>
  BY DEF NamesTyped, Names!NameSet
<1>3. device = IF \E i \in DOMAIN devices : devices[i] = name THEN name ELSE <<>>
  BY <1>2, DeviceFound
<1>4. \A i \in DOMAIN fileSystems : fileSystems[i] \in Names!NameSet
  BY <1>2
<1>5. /\ owners \in SUBSET DOMAIN fileSystems
      /\ \A i \in DOMAIN fileSystems : i \in owners <=> Names!Below(fileSystems[i], name)
  BY <1>4, MountMatch
<1> HIDE DEF owners, device
<1>6. /\ owners = {} => fs = <<>>
      /\ owners # {} => /\ \E i \in owners : fs = fileSystems[i]
                        /\ fs # <<>>
  BY <1>2, <1>5, FindsInList
<1> HIDE DEF fs
<1>7. found' = IF device # <<>> THEN [kind |-> "device", name |-> device]
               ELSE IF fs # <<>> THEN [kind |-> "fs", name |-> fs]
               ELSE [kind |-> "none", name |-> <<>>]
  BY <1>1 DEF Names!Result
<1>8. CASE device # <<>>
  BY <1>1, <1>2, <1>3, <1>7, <1>8
<1>9. CASE device = <<>> /\ fs # <<>>
  BY <1>1, <1>2, <1>3, <1>5, <1>6, <1>7, <1>9
<1>10. CASE device = <<>> /\ fs = <<>>
  BY <1>1, <1>2, <1>3, <1>5, <1>6, <1>7, <1>10
<1>11. QED
  BY <1>8, <1>9, <1>10

LEMMA ChannelsRight ==
  ASSUME Names!NamesAssumption, NamesTyped, NEW name \in Names!NameSet, Names!OpenChannel(name)
  PROVE  /\ found'.kind \in Names!Channel /\ asked' = name
         /\ found'.name = IF name \in Names!ToSet(channels[found'.kind]) THEN name ELSE <<>>
<1>1. PICK k \in Names!Channel : found' = [kind |-> k, name |-> Names!FindDev(name, channels[k])]
  BY DEF Names!OpenChannel, Names!OpenReceive, Names!OpenTransmit, Names!OpenFlash, Names!Channel
<1>2. asked' = name /\ channels[k] \in Seq(Names!NameSet)
  BY DEF Names!OpenChannel, NamesTyped
<1>3. found'.kind = k /\ found'.name = Names!FindDev(name, channels[k])
  BY <1>1
<1>4. Names!FindDev(name, channels[k])
        = IF \E i \in DOMAIN channels[k] : channels[k][i] = name THEN name ELSE <<>>
  BY <1>2, DeviceFound
<1>5. name \in Names!ToSet(channels[k]) <=> \E i \in DOMAIN channels[k] : channels[k][i] = name
  BY DEF Names!ToSet
<1>6. QED
  BY <1>2, <1>3, <1>4, <1>5

\* The search for a name finds the device that has it, and only that one, or
\* else a file system in whose directory it lies, of names of any length and
\* lists of any number of them, whatever is in memory behind a name.
THEOREM NamesFound ==
  ASSUME Names!NamesAssumption
  PROVE  Names!Spec => Names!DeviceByItsName /\ Names!FileByItsDirectory
<1> DEFINE ByItsName ==
             /\ found'.kind \in {"device", "fs", "none"} =>
                    (found'.kind = "device") = (\E i \in DOMAIN devices : devices[i] = asked')
             /\ found'.kind = "device" => found'.name = asked'
             /\ found'.kind \in Names!Channel =>
                    found'.name = IF asked' \in Names!ToSet(channels[found'.kind])
                                  THEN asked' ELSE <<>>
           ByItsDirectory ==
             /\ found'.kind = "fs" => Names!Below(found'.name, asked')
             /\ found'.kind = "none" =>
                    \A i \in DOMAIN fileSystems : ~Names!Below(fileSystems[i], asked')
<1>1. ASSUME NamesTyped, [Names!Next]_(Names!vars), found' # found
      PROVE  ByItsName /\ ByItsDirectory
  <2>1. \/ \E n \in Names!NameSet, b \in Names!Chars \cup {Nul} : Names!Open(n, b)
        \/ \E n \in Names!NameSet : Names!OpenChannel(n)
    BY <1>1 DEF Names!Next, Names!vars, Names!RegisterDevice, Names!RegisterFileSystem,
                Names!RegisterChannel
  <2>2. Names!Channel \cap {"device", "fs", "none"} = {}
    BY DEF Names!Channel
  <2>3. ASSUME NEW n \in Names!NameSet, NEW b, Names!Open(n, b)
        PROVE  ByItsName /\ ByItsDirectory
    <3>1. (found'.kind = "device") = (\E i \in DOMAIN devices : devices[i] = asked')
      BY <1>1, <2>3, OpensRight
    <3>2. QED
      BY <1>1, <2>2, <2>3, <3>1, OpensRight
  <2>4. ASSUME NEW n \in Names!NameSet, Names!OpenChannel(n)
        PROVE  ByItsName /\ ByItsDirectory
    BY <1>1, <2>2, <2>4, ChannelsRight
  <2>5. QED
    BY <2>1, <2>3, <2>4
<1>2. NamesTyped /\ [Names!Next]_(Names!vars) => [found' # found => ByItsName]_(Names!vars)
  BY <1>1
<1>3. NamesTyped /\ [Names!Next]_(Names!vars) => [found' # found => ByItsDirectory]_(Names!vars)
  BY <1>1
<1>4. QED
  BY <1>2, <1>3, NamesStart, NamesStep, PTL
     DEF Names!Spec, Names!DeviceByItsName, Names!FileByItsDirectory

-----------------------------------------------------------------------------
\* What holds of 0, and of n + 1 if of n, holds of every number; S is the set
\* of the numbers it holds of.
LEMMA EveryNumber ==
  ASSUME NEW S \in SUBSET Nat, 0 \in S, \A n \in S : n + 1 \in S
  PROVE  S = Nat
<1> SUFFICES ASSUME S # Nat PROVE FALSE
  OBVIOUS
<1>1. PICK n \in Nat \ S : \A m \in Nat \ S : n <= m
  <2>1. Nat \ S \in SUBSET Nat /\ Nat \ S # {}
    OBVIOUS
  <2> QED BY <2>1, SmallestOf
<1>2. n # 0 /\ n - 1 \in Nat /\ ~(n <= n - 1)
  BY <1>1
<1>3. n - 1 \in S
  BY <1>1, <1>2
<1> QED BY <1>1, <1>2, <1>3

-----------------------------------------------------------------------------
\* Dtn.tla and PairQueue.tla: loops, which are folds of a sequence.  The fold is
\* a function of sets of indices, each with its largest index taken last.
Largest(S) == CHOOSE x \in S : \A y \in S : x >= y

LEMMA LargestOfUpto ==
  ASSUME NEW k \in Nat \ {0}, NEW s \in SUBSET (1 .. k), k \in s
  PROVE  Largest(s) = k
<1>1. \A x \in s : (\A y \in s : x >= y) <=> x = k
  OBVIOUS
<1> QED BY <1>1 DEF Largest

LEMMA LargestIn ==
  ASSUME NEW n \in Nat, NEW s \in SUBSET (1 .. n), s # {}
  PROVE  Largest(s) \in s
<1> DEFINE X == {n - x : x \in s}
<1>1. X \in SUBSET Nat /\ X # {}
  <2>1. \A x \in s : n - x \in Nat
    OBVIOUS
  <2> QED BY <2>1
<1>2. PICK x \in X : \A y \in X : x <= y
  <2> HIDE DEF X
  <2> QED BY <1>1, SmallestOf
<1>3. PICK z \in s : x = n - z
  BY <1>2
<1>4. \A y \in s : z >= y
  <2> TAKE y \in s
  <2>1. n - y \in X /\ n - z <= n - y
    BY <1>2, <1>3
  <2> QED BY <2>1
<1> QED BY <1>4 DEF Largest

\* The loop's body, applied for each index of s.
Folds(n, start, step, g) ==
  \A s \in SUBSET (1 .. n) :
    g[s] = IF s = {} THEN start ELSE step[Largest(s)][g[s \ {Largest(s)}]]

LEMMA FoldsExist ==
  ASSUME NEW n \in Nat, NEW V, NEW start \in V, NEW step \in [1 .. n -> [V -> V]]
  PROVE  \E g \in [SUBSET (1 .. n) -> V] : Folds(n, start, step, g)
<1> DEFINE Upto(k) == k <= n => \E g \in [SUBSET (1 .. k) -> V] : Folds(k, start, step, g)
           S == {k \in Nat : Upto(k)}
<1>1. 0 \in S
  <2> DEFINE g == [s \in SUBSET (1 .. 0) |-> start]
  <2>1. \A s \in SUBSET (1 .. 0) : s = {}
    OBVIOUS
  <2>2. g \in [SUBSET (1 .. 0) -> V] /\ Folds(0, start, step, g)
    BY <2>1 DEF Folds
  <2> QED BY <2>2
<1>2. ASSUME NEW k \in S PROVE k + 1 \in S
  <2>1. SUFFICES ASSUME k + 1 <= n
                 PROVE  \E g \in [SUBSET (1 .. k + 1) -> V] : Folds(k + 1, start, step, g)
    <3> HIDE DEF Upto
    <3>1. SUFFICES Upto(k + 1)
      BY SMT
    <3> QED BY DEF Upto
  <2>2. k \in Nat /\ k <= n /\ k + 1 \in 1 .. n /\ k + 1 \in Nat \ {0}
    BY <2>1
  <2>3. PICK g \in [SUBSET (1 .. k) -> V] : Folds(k, start, step, g)
    BY <2>2
  <2> DEFINE less(s) == s \ {k + 1}
             h == [s \in SUBSET (1 .. k + 1) |-> IF k + 1 \in s THEN step[k + 1][g[less(s)]] ELSE g[s]]
  <2>4. ASSUME NEW s \in SUBSET (1 .. k + 1)
        PROVE  less(s) \in SUBSET (1 .. k) /\ (k + 1 \notin s => s \in SUBSET (1 .. k))
    BY <2>2
  <2>5. h \in [SUBSET (1 .. k + 1) -> V]
    <3>1. ASSUME NEW s \in SUBSET (1 .. k + 1) PROVE h[s] \in V
      <4>1. CASE k + 1 \in s
        <5>1. g[less(s)] \in V /\ step[k + 1] \in [V -> V]
          BY <2>2, <2>3, <2>4
        <5> QED BY <4>1, <5>1
      <4>2. CASE k + 1 \notin s
        BY <2>3, <2>4, <4>2
      <4> QED BY <4>1, <4>2
    <3> QED BY <3>1
  <2>6. ASSUME NEW s \in SUBSET (1 .. k + 1)
        PROVE  h[s] = IF s = {} THEN start ELSE step[Largest(s)][h[s \ {Largest(s)}]]
    <3>1. CASE k + 1 \in s
      <4>1. Largest(s) = k + 1 /\ less(s) \in SUBSET (1 .. k + 1) /\ k + 1 \notin less(s)
        BY <2>2, <2>4, <3>1, LargestOfUpto
      <4>2. h[less(s)] = g[less(s)] /\ h[s] = step[k + 1][g[less(s)]]
        BY <3>1, <4>1
      <4> QED BY <3>1, <4>1, <4>2
    <3>2. CASE k + 1 \notin s
      <4>1. s \in SUBSET (1 .. k) /\ h[s] = g[s]
        BY <2>4, <3>2
      <4>2. s \ {Largest(s)} \in SUBSET (1 .. k) /\ k + 1 \notin s \ {Largest(s)}
        BY <3>2, <4>1
      <4>3. s \ {Largest(s)} \in SUBSET (1 .. k + 1)
        BY <4>2, <2>2
      <4>4. h[s \ {Largest(s)}] = g[s \ {Largest(s)}]
        BY <4>2, <4>3
      <4>5. g[s] = IF s = {} THEN start ELSE step[Largest(s)][g[s \ {Largest(s)}]]
        BY <2>3, <4>1 DEF Folds
      <4> QED BY <4>1, <4>4, <4>5
    <3> QED BY <3>1, <3>2
  <2> HIDE DEF h
  <2>7. Folds(k + 1, start, step, h)
    BY <2>6 DEF Folds
  <2> QED BY <2>5, <2>7
<1>3. S = Nat
  <2> HIDE DEF Upto
  <2> QED BY <1>1, <1>2, EveryNumber
<1>4. Upto(n)
  <2> HIDE DEF Upto
  <2> QED BY <1>3
<1>5. n <= n
  OBVIOUS
<1> QED BY <1>4, <1>5, Zenon

\* The loop over neighbours of find_cheapest_neighbor, as the fold it is.
Indexes(n) == [i \in 1 .. n |-> i]
Better(from, at, best, i) ==
  /\ up[at + i - 1]
  /\ best = from \/ cost[from][i - 1] < cost[from][best - at]
CheapestRound(from, at, count, g, s) ==
  IF s = {} THEN from
  ELSE IF Better(from, at, g[s \ {Largest(s)}], Indexes(count)[Largest(s)])
       THEN at + Indexes(count)[Largest(s)] - 1
       ELSE g[s \ {Largest(s)}]
CheapestFold(from, at, count, g) ==
  g = [s \in SUBSET (DOMAIN Indexes(count)) |-> CheapestRound(from, at, count, g, s)]

LEMMA CheapestIsFold ==
  ASSUME NEW from, NEW at, NEW count
  PROVE  Router!Cheapest(from, at, count)
           = (CHOOSE g : CheapestFold(from, at, count, g))[DOMAIN Indexes(count)]
  BY Zenon DEF Router!Cheapest, Router!FoldLeft, Router!MapThenFoldSet, Router!Max,
               Largest, Indexes, Better, CheapestRound, CheapestFold

\* Of the first k neighbours from at on, b is the cheapest that is up, and the
\* node itself if none is.
Chosen(from, at, k, b) ==
  \/ b = from /\ \A i \in 1 .. k : ~up[at + i - 1]
  \/ \E i \in 1 .. k :
       /\ b = at + i - 1 /\ up[b]
       /\ \A j \in 1 .. k : up[at + j - 1] => cost[from][i - 1] <= cost[from][j - 1]

LEMMA ChosenNext ==
  ASSUME NEW from, NEW at \in Nat, NEW k \in Nat \ {0}, NEW best,
         \A i \in 1 .. k : cost[from][i - 1] \in Nat /\ from # at + i - 1,
         Chosen(from, at, k - 1, best)
  PROVE  Chosen(from, at, k, IF Better(from, at, best, k) THEN at + k - 1 ELSE best)
<1> DEFINE price(i) == cost[from][i - 1]
           isUp(i) == up[at + i - 1]
<1>1. \A i \in 1 .. k : price(i) \in Nat
  OBVIOUS
<1>2. 1 .. k = (1 .. k - 1) \cup {k} /\ k \in 1 .. k
  OBVIOUS
<1>3. CASE best = from /\ \A i \in 1 .. k - 1 : ~isUp(i)
  <2>1. Better(from, at, best, k) <=> isUp(k)
    BY <1>3 DEF Better
  <2>2. CASE isUp(k)
    <3>1. \A j \in 1 .. k : isUp(j) => price(k) <= price(j)
      BY <1>1, <1>2, <1>3
    <3> QED BY <1>2, <2>1, <2>2, <3>1 DEF Chosen
  <2>3. CASE ~isUp(k)
    <3>1. \A i \in 1 .. k : ~isUp(i)
      BY <1>2, <1>3, <2>3
    <3>2. ~Better(from, at, best, k)
      BY <2>3 DEF Better
    <3> QED BY <1>3, <3>1, <3>2 DEF Chosen
  <2> QED BY <2>2, <2>3
<1>4. ASSUME NEW i \in 1 .. k - 1, best = at + i - 1, isUp(i),
             \A j \in 1 .. k - 1 : isUp(j) => price(i) <= price(j)
      PROVE  Chosen(from, at, k, IF Better(from, at, best, k) THEN at + k - 1 ELSE best)
  <2>1. i \in 1 .. k /\ best # from /\ best - at = i - 1
    BY <1>2, <1>4
  <2>2. Better(from, at, best, k) <=> (isUp(k) /\ price(k) < price(i))
    BY <2>1 DEF Better
  <2>3. CASE isUp(k) /\ price(k) < price(i)
    <3>1. ASSUME NEW j \in 1 .. k, isUp(j)
          PROVE  price(k) <= price(j)
      <4>1. price(k) \in Nat /\ price(i) \in Nat /\ price(j) \in Nat
        BY <1>1, <1>2, <2>1
      <4>2. j # k => price(i) <= price(j)
        <5> HIDE DEF price, isUp
        <5> QED BY <1>2, <1>4, <3>1
      <4> HIDE DEF price, isUp
      <4> QED BY <2>3, <4>1, <4>2
    <3> QED BY <1>2, <2>2, <2>3, <3>1 DEF Chosen
  <2>4. CASE ~(isUp(k) /\ price(k) < price(i))
    <3>1. ASSUME NEW j \in 1 .. k, isUp(j)
          PROVE  price(i) <= price(j)
      <4>1. price(k) \in Nat /\ price(i) \in Nat /\ price(j) \in Nat
        BY <1>1, <1>2, <2>1
      <4>2. j # k => price(i) <= price(j)
        <5> HIDE DEF price, isUp
        <5> QED BY <1>2, <1>4, <3>1
      <4>3. CASE j = k
        <5>1. ~(price(k) < price(i))
          BY <2>4, <3>1, <4>3
        <5> HIDE DEF price, isUp
        <5> QED BY <4>1, <4>3, <5>1
      <4> QED BY <4>2, <4>3
    <3> QED BY <1>4, <2>1, <2>2, <2>4, <3>1 DEF Chosen
  <2> QED BY <2>3, <2>4
<1> QED BY <1>3, <1>4 DEF Chosen

LEMMA CheapestIs ==
  ASSUME NEW from, NEW at \in Nat, NEW count \in Nat,
         \A i \in 1 .. count : cost[from][i - 1] \in Nat /\ from # at + i - 1
  PROVE  Chosen(from, at, count, Router!Cheapest(from, at, count))
<1> DEFINE V == {from} \cup {at + i - 1 : i \in 1 .. count}
           step == [i \in 1 .. count |->
                      [best \in V |-> IF Better(from, at, best, i) THEN at + i - 1 ELSE best]]
<1>1. step \in [1 .. count -> [V -> V]] /\ from \in V
  OBVIOUS
<1>2. DOMAIN Indexes(count) = 1 .. count /\ \A i \in 1 .. count : Indexes(count)[i] = i
  BY DEF Indexes
<1>3. ASSUME NEW s \in SUBSET (1 .. count), s # {}
      PROVE  Largest(s) \in s
  BY <1>3, LargestIn
<1>4. \E g : CheapestFold(from, at, count, g)
  <2>1. PICK g \in [SUBSET (1 .. count) -> V] : Folds(count, from, step, g)
    <3> HIDE DEF step, V
    <3> QED BY <1>1, FoldsExist
  <2>2. ASSUME NEW s \in SUBSET (1 .. count)
        PROVE  g[s] = CheapestRound(from, at, count, g, s)
    <3>1. g[s] = IF s = {} THEN from ELSE step[Largest(s)][g[s \ {Largest(s)}]]
      BY <2>1 DEF Folds
    <3>2. CASE s # {}
      <4>1. Largest(s) \in 1 .. count /\ g[s \ {Largest(s)}] \in V
        BY <1>3, <3>2
      <4>2. Indexes(count)[Largest(s)] = Largest(s)
        BY <1>2, <4>1
      <4> HIDE DEF V
      <4> QED BY <3>1, <3>2, <4>1, <4>2 DEF CheapestRound
    <3> QED BY <3>1, <3>2 DEF CheapestRound
  <2>3. g = [s \in SUBSET (1 .. count) |-> CheapestRound(from, at, count, g, s)]
    <3> HIDE DEF V
    <3> QED BY <2>1, <2>2
  <2>4. CheapestFold(from, at, count, g)
    BY <1>2, <2>3, Zenon DEF CheapestFold
  <2> QED BY <2>4
<1> DEFINE g == CHOOSE h : CheapestFold(from, at, count, h)
<1>5. CheapestFold(from, at, count, g)
  BY <1>4
<1> HIDE DEF g
<1>6. ASSUME NEW s \in SUBSET (1 .. count)
      PROVE  g[s] = CheapestRound(from, at, count, g, s)
  BY <1>2, <1>5, Zenon DEF CheapestFold
<1> DEFINE S == {k \in Nat : k <= count => Chosen(from, at, k, g[1 .. k])}
<1>7. 0 \in S
  <2>1. 1 .. 0 = {} /\ 1 .. 0 \in SUBSET (1 .. count)
    OBVIOUS
  <2>2. g[1 .. 0] = from
    BY <1>6, <2>1, Zenon DEF CheapestRound
  <2> QED BY <2>1, <2>2 DEF Chosen
<1>8. ASSUME NEW k \in S PROVE k + 1 \in S
  <2>1. SUFFICES ASSUME k + 1 <= count PROVE Chosen(from, at, k + 1, g[1 .. k + 1])
    OBVIOUS
  <2>2. k \in Nat /\ Chosen(from, at, k, g[1 .. k])
    BY <2>1
  <2>3. /\ 1 .. k + 1 \in SUBSET (1 .. count) /\ 1 .. k + 1 # {} /\ k + 1 \in 1 .. k + 1
        /\ k + 1 \in 1 .. count /\ (1 .. k + 1) \ {k + 1} = 1 .. k
        /\ k + 1 \in Nat \ {0} /\ (k + 1) - 1 = k
    <3>1. k + 1 \in 1 .. k + 1 /\ k + 1 \in 1 .. count /\ k + 1 \in Nat \ {0} /\ (k + 1) - 1 = k
      BY <2>1, <2>2
    <3>2. 1 .. k + 1 \in SUBSET (1 .. count) /\ 1 .. k + 1 # {}
      <4>1. \A i \in 1 .. k + 1 : i \in 1 .. count
        BY <2>1, <2>2
      <4> QED BY <3>1, <4>1
    <3>3. (1 .. k + 1) \ {k + 1} = 1 .. k
      BY <2>2
    <3> QED BY <3>1, <3>2, <3>3
  <2>4. Largest(1 .. k + 1) = k + 1
    BY <2>3, LargestOfUpto
  <2>5. Indexes(count)[k + 1] = k + 1
    BY <1>2, <2>3
  <2>6. g[1 .. k + 1] = IF Better(from, at, g[1 .. k], k + 1)
                        THEN at + (k + 1) - 1 ELSE g[1 .. k]
    BY <1>6, <2>3, <2>4, <2>5, Zenon DEF CheapestRound
  <2>7. \A i \in 1 .. k + 1 : cost[from][i - 1] \in Nat /\ from # at + i - 1
    BY <2>3
  <2> QED BY <2>2, <2>3, <2>6, <2>7, ChosenNext
<1>9. Chosen(from, at, count, g[1 .. count])
  <2>1. S = Nat
    <3> HIDE DEF S
    <3>1. S \in SUBSET Nat
      BY DEF S
    <3> QED BY <1>7, <1>8, <3>1, EveryNumber
  <2> QED BY <2>1
<1> QED BY <1>2, <1>9, CheapestIsFold, Zenon DEF g

LEMMA Grid ==
  ASSUME Router!DtnAssumption
  PROVE  /\ NetNodes \in Nat \ {0} /\ Router!Receiver \in Nat \ {0}
         /\ Router!Receiver >= NetNodes
         /\ Router!Sender = Router!Receiver + 1 /\ Router!Inner = 0 .. Router!Receiver - 1
         /\ Router!Receiver = NetNodes * NetNodes
         /\ Router!Level(Router!Receiver) = NetNodes
<1>1. NetNodes \in Nat \ {0}
  BY DEF Router!DtnAssumption
<1> DEFINE square == NetNodes * NetNodes
<1>2. square \in Nat \ {0} /\ square >= NetNodes
  BY <1>1
<1>3. Router!Size = square + 2
  BY Zenon DEF Router!Size, Router!Levels
<1>4. square \div NetNodes = NetNodes
  <2>1. 0 \in 0 .. NetNodes - 1 /\ NetNodes \in Int /\ square + 0 = square
    BY <1>1, <1>2
  <2>2. (NetNodes * NetNodes + 0) \div NetNodes = NetNodes
    BY <1>1, <2>1, Quotient
  <2> QED BY <2>1, <2>2
<1> HIDE DEF square
<1>5. /\ Router!Receiver = square /\ Router!Sender = square + 1
      /\ Router!Inner = 0 .. square - 1
  BY <1>2, <1>3 DEF Router!Receiver, Router!Sender, Router!Inner
<1> QED BY <1>1, <1>2, <1>4, <1>5 DEF Router!Level, square

LEMMA LevelHas ==
  ASSUME Router!DtnAssumption, NEW l \in 0 .. NetNodes - 1, NEW i \in 0 .. NetNodes - 1
  PROVE  /\ l * NetNodes + i \in Router!OfLevel(l)
         /\ l * NetNodes + i \in 0 .. Router!Receiver - 1
         /\ Router!Level(l * NetNodes + i) = l
<1> DEFINE N == NetNodes
<1>1. N \in Nat \ {0} /\ Router!Receiver = N * N
  BY Grid
<1>2. l * N + i \in Router!OfLevel(l)
  BY DEF Router!OfLevel
<1>3. l * N + i \in 0 .. N * N - 1
  <2>1. N * N = (l * N) + ((N - l) * N) /\ l * N \in Nat
    BY <1>1
  <2>2. (N - l) * N >= N /\ (N - l) * N \in Nat
    BY <1>1
  <2> DEFINE low == l * N  high == (N - l) * N  square == N * N
  <2>3. square = low + high /\ low \in Nat /\ high >= N /\ high \in Nat
    BY <2>1, <2>2
  <2> HIDE DEF low, high, square
  <2>4. low + i \in 0 .. square - 1
    BY <1>1, <2>3
  <2> QED BY <2>4 DEF low, square
<1>4. (N * l + i) \div N = l
  BY <1>1, Quotient
<1>5. N * l = l * N
  BY <1>1
<1> QED BY <1>1, <1>2, <1>3, <1>4, <1>5 DEF Router!Level

LEMMA LevelOfNode ==
  ASSUME Router!DtnAssumption, NEW n \in 0 .. Router!Receiver - 1
  PROVE  /\ Router!Level(n) \in 0 .. NetNodes - 1
         /\ n \in Router!OfLevel(Router!Level(n))
<1> DEFINE N == NetNodes  q == n \div N  rest == n % N
<1>1. N \in Nat \ {0} /\ Router!Receiver = N * N /\ n \in Nat /\ n < N * N
  <2>1. Router!Receiver \in Nat \ {0} /\ Router!Receiver = N * N /\ N \in Nat \ {0}
    BY Grid
  <2>2. n \in Nat /\ n < Router!Receiver
    BY <2>1
  <2> QED BY <2>1, <2>2
<1>2. q \in Int /\ rest \in 0 .. N - 1 /\ n = (N * q) + rest
  BY <1>1, Division
<1> HIDE DEF q, rest
<1>3. q \in 0 .. N - 1
  <2>1. q >= 0
    <3>1. SUFFICES ASSUME q <= -1 PROVE FALSE
      BY <1>2
    <3>2. N * q <= -N
      BY <1>1, <1>2, <3>1
    <3> DEFINE low == N * q
    <3>3. low \in Int /\ low <= -N /\ n = low + rest
      BY <1>1, <1>2, <3>2
    <3> HIDE DEF low
    <3> QED BY <1>1, <1>2, <3>3
  <2>2. q <= N - 1
    <3>1. SUFFICES ASSUME q >= N PROVE FALSE
      BY <1>1, <1>2
    <3>2. N * q >= N * N
      BY <1>1, <1>2, <3>1
    <3> DEFINE low == N * q  square == N * N
    <3>3. low \in Int /\ square \in Int /\ low >= square /\ n = low + rest /\ n < square
      BY <1>1, <1>2, <3>2
    <3> HIDE DEF low, square
    <3> QED BY <1>1, <1>2, <3>3
  <2> QED BY <1>2, <2>1, <2>2
<1>4. n = q * N + rest
  BY <1>1, <1>2, <1>3
<1>5. n \in Router!OfLevel(q)
  BY <1>2, <1>4 DEF Router!OfLevel
<1> QED BY <1>3, <1>5 DEF Router!Level, q

\* The neighbours that a node chooses among are the next level, or the receiver.
Ahead(n) == IF Router!Level(n) = NetNodes - 1 THEN {Router!Receiver}
            ELSE Router!OfLevel(Router!Level(n) + 1)

LEMMA AheadIs ==
  ASSUME Router!DtnAssumption, node \in 0 .. Router!Receiver - 1
  PROVE  /\ Router!Ahead \in Nat /\ Router!Neighbours \in Nat /\ Router!Neighbours <= NetNodes
         /\ Router!Ahead > node
         /\ Ahead(node) = {Router!Ahead + i - 1 : i \in 1 .. Router!Neighbours}
         /\ \A n \in Ahead(node) : /\ n \in 0 .. Router!Receiver
                                   /\ Router!Level(n) = Router!Level(node) + 1
         /\ Router!Level(node) # NetNodes - 1 => Router!Receiver \notin Ahead(node)
<1> DEFINE N == NetNodes  l == Router!Level(node)
<1>1. /\ N \in Nat \ {0} /\ Router!Receiver \in Nat /\ Router!Receiver = N * N
      /\ Router!Level(Router!Receiver) = N
  BY Grid
<1>2. l \in 0 .. N - 1 /\ node \in Router!OfLevel(l)
  BY LevelOfNode
<1> HIDE DEF l
<1>3. Router!Ahead = (l + 1) * N
  BY DEF Router!Ahead, l
<1>4. (l + 1) * N \in Nat
  BY <1>1, <1>2
<1>5. Router!Neighbours = IF l < N - 1 THEN N ELSE 1
  BY DEF Router!Neighbours, Router!Levels, l
<1>6. Router!Ahead > node
  <2>1. PICK i \in 0 .. N - 1 : node = l * N + i
    BY <1>2 DEF Router!OfLevel
  <2>2. (l + 1) * N = (l * N) + N /\ l * N \in Nat
    BY <1>1, <1>2
  <2> DEFINE low == l * N
  <2>3. low \in Nat /\ node = low + i /\ Router!Ahead = low + N
    BY <1>3, <2>1, <2>2
  <2> HIDE DEF low
  <2> QED BY <1>1, <2>3
<1>7. CASE l = N - 1
  <2>1. Router!Neighbours = 1 /\ Router!Ahead = N * N /\ N * N \in Nat
    BY <1>1, <1>3, <1>5, <1>7
  <2>2. {Router!Ahead + i - 1 : i \in 1 .. 1} = {Router!Receiver}
    BY <1>1, <2>1
  <2>3. Ahead(node) = {Router!Receiver} /\ l + 1 = N
    BY <1>1, <1>7 DEF Ahead, l
  <2> QED BY <1>1, <1>3, <1>4, <1>6, <1>7, <2>1, <2>2, <2>3 DEF l
<1>8. CASE l # N - 1
  <2>1. Router!Neighbours = N /\ Ahead(node) = Router!OfLevel(l + 1) /\ l + 1 \in 0 .. N - 1
    BY <1>1, <1>2, <1>5, <1>8 DEF Ahead, l
  <2>2. {Router!Ahead + i - 1 : i \in 1 .. N} = Router!OfLevel(l + 1)
    <3> DEFINE low == (l + 1) * N
    <3>1. Router!Ahead = low /\ Router!OfLevel(l + 1) = {low + i : i \in 0 .. N - 1} /\ low \in Nat
      BY <1>3, <1>4 DEF Router!OfLevel
    <3> HIDE DEF low
    <3>2. \A i \in 1 .. N : i - 1 \in 0 .. N - 1 /\ low + i - 1 = low + (i - 1)
      BY <1>1, <3>1
    <3>3. \A i \in 0 .. N - 1 : i + 1 \in 1 .. N /\ low + i = low + (i + 1) - 1
      BY <1>1, <3>1
    <3> QED BY <3>1, <3>2, <3>3
  <2>3. ASSUME NEW n \in Router!OfLevel(l + 1)
        PROVE  n \in 0 .. Router!Receiver - 1 /\ Router!Level(n) = l + 1
    <3>1. PICK i \in 0 .. N - 1 : n = (l + 1) * N + i
      BY DEF Router!OfLevel
    <3> QED BY <2>1, <3>1, LevelHas
  <2>4. \A n \in 0 .. Router!Receiver - 1 : n # Router!Receiver /\ n \in 0 .. Router!Receiver
    BY <1>1
  <2>5. \A n \in Ahead(node) : /\ n \in 0 .. Router!Receiver /\ n # Router!Receiver
                               /\ Router!Level(n) = l + 1
    BY <2>1, <2>3, <2>4
  <2>6. N <= N
    BY <1>1
  <2> QED BY <1>1, <1>3, <1>4, <1>6, <2>1, <2>2, <2>5, <2>6 DEF l
<1> QED BY <1>7, <1>8

LEMMA BesideIs ==
  ASSUME Router!DtnAssumption, NEW n \in 0 .. Router!Receiver - 1
  PROVE  /\ Router!Beside(n) \in 0 .. Router!Receiver - 1
         /\ Router!Level(Router!Beside(n)) = Router!Level(n)
<1>1. /\ NetNodes \in Nat \ {0} /\ n + 1 \in Int /\ Router!Level(n) \in 0 .. NetNodes - 1
  BY Grid, LevelOfNode
<1>2. (n + 1) % NetNodes \in 0 .. NetNodes - 1
  BY <1>1, Division
<1> QED BY <1>1, <1>2, LevelHas DEF Router!Beside

\* What the i-th place of a path p cost, when the links cost as c says; and that
\* t is the sum of what all did.
HopIn(p, c, i) ==
  IF i = 1 THEN c[Router!Sender][p[1]]
  ELSE IF Router!Level(p[i - 1]) = Router!Level(p[i]) THEN WaitCost
       ELSE c[p[i - 1]][p[i] % NetNodes]
Sums(p, c, f) ==
  /\ f \in [0 .. Len(p) -> Nat] /\ f[0] = 0
  /\ \A i \in 1 .. Len(p) : f[i] = f[i - 1] + HopIn(p, c, i)
SumsTo(p, c, t) == \E f : Sums(p, c, f) /\ t = f[Len(p)]
Onwards(p) ==
  \A i \in 1 .. Len(p) - 1 :
    Router!Level(p[i + 1]) \in {Router!Level(p[i]), Router!Level(p[i]) + 1}
Waited(p) == \E i \in 1 .. Len(p) - 1 : Router!Level(p[i]) = Router!Level(p[i + 1])

\* The route so far: no node of it is ahead of where the message is, and without
\* a wait it has one of each level up to there.
RouterInv ==
  /\ Router!TypeOK
  /\ phase = "first" => /\ node = Router!Sender /\ path = <<>> /\ total = 0
                        /\ \E n \in Router!OfLevel(0) : up[n]
  /\ phase # "first" => /\ path # <<>> /\ node = path[Len(path)]
                        /\ path[1] \in Router!OfLevel(0)
                        /\ Onwards(path) /\ SumsTo(path, cost, total)
                        /\ \A i \in 1 .. Len(path) : Router!Level(path[i]) <= Router!Level(node)
                        /\ Len(path) <= Router!Level(node) + 1 \/ Waited(path)

\* One more place of a path adds what it cost, if the others cost what they did.
LEMMA SumGrows ==
  ASSUME NEW T, NEW p \in Seq(T), p # <<>>, NEW n \in T, NEW c, NEW d, NEW t, NEW h \in Nat,
         SumsTo(p, c, t),
         \A i \in 1 .. Len(p) : HopIn(p, d, i) = HopIn(p, c, i),
         HopIn(Append(p, n), d, Len(p) + 1) = h
  PROVE  SumsTo(Append(p, n), d, t + h)
<1> DEFINE q == Append(p, n)  k == Len(p)
<1>1. /\ k \in Nat \ {0} /\ Len(q) = k + 1 /\ \A i \in 1 .. k : q[i] = p[i]
  OBVIOUS
<1>2. PICK f : Sums(p, c, f) /\ t = f[k]
  BY DEF SumsTo
<1>3. /\ f \in [0 .. k -> Nat] /\ f[0] = 0
      /\ \A i \in 1 .. k : f[i] = f[i - 1] + HopIn(p, c, i)
  BY <1>2 DEF Sums
<1> HIDE DEF q, k
<1>4. \A i \in 1 .. k : HopIn(q, d, i) = HopIn(p, d, i)
  <2> TAKE i \in 1 .. k
  <2>1. i # 1 => i - 1 \in 1 .. k
    BY <1>1
  <2>2. 1 \in 1 .. k /\ q[1] = p[1] /\ q[i] = p[i] /\ (i # 1 => q[i - 1] = p[i - 1])
    BY <1>1, <2>1
  <2> QED BY <2>2 DEF HopIn
<1> DEFINE g == [i \in 0 .. k + 1 |-> IF i = k + 1 THEN t + h ELSE f[i]]
<1>5. t \in Nat
  BY <1>1, <1>2, <1>3
<1>6. g \in [0 .. k + 1 -> Nat] /\ g[0] = 0 /\ g[k + 1] = t + h
  BY <1>1, <1>3, <1>5
<1>7. ASSUME NEW i \in 1 .. k + 1 PROVE g[i] = g[i - 1] + HopIn(q, d, i)
  <2>1. CASE i = k + 1
    <3>1. g[i] = t + h /\ g[i - 1] = t /\ HopIn(q, d, i) = h
      BY <1>1, <1>2, <1>6, <2>1 DEF q, k
    <3> QED BY <3>1
  <2>2. CASE i # k + 1
    <3>1. i \in 1 .. k /\ i \in 0 .. k + 1 /\ i - 1 \in 0 .. k + 1 /\ i - 1 # k + 1
      BY <1>1, <2>2
    <3>2. g[i] = f[i] /\ g[i - 1] = f[i - 1]
      BY <2>2, <3>1
    <3>3. HopIn(q, d, i) = HopIn(p, c, i)
      BY <1>4, <3>1 DEF k
    <3> QED BY <1>3, <3>1, <3>2, <3>3
  <2> QED BY <2>1, <2>2
<1> HIDE DEF g
<1>8. Sums(q, d, g) /\ g[Len(q)] = t + h
  BY <1>1, <1>6, <1>7 DEF Sums
<1> QED BY <1>8 DEF SumsTo, q

\* The sum is what the specification means by it.
LEMMA SumIs ==
  ASSUME Len(path) \in Nat, SumsTo(path, cost, total)
  PROVE  Router!CostOfPath
<1> DEFINE n == Len(path)
           IsSum(f) == f = [i \in 0 .. Len(path) |->
                              IF i = 0 THEN 0 ELSE f[i - 1] + Router!HopCost(i)]
           sum == CHOOSE f : IsSum(f)
<1>1. PICK f : Sums(path, cost, f) /\ total = f[n]
  BY DEF SumsTo
<1>2. /\ n \in Nat /\ f \in [0 .. n -> Nat] /\ f[0] = 0
      /\ \A i \in 1 .. n : f[i] = f[i - 1] + Router!HopCost(i)
  BY <1>1 DEF Sums, HopIn, Router!HopCost
<1>3. IsSum(f)
  <2>1. \A i \in 0 .. n : f[i] = IF i = 0 THEN 0 ELSE f[i - 1] + Router!HopCost(i)
    <3>1. \A i \in 0 .. n : i # 0 => i \in 1 .. n
      BY <1>2
    <3> QED BY <1>2, <3>1
  <2> QED BY <1>2, <2>1
<1>4. IsSum(sum)
  <2> HIDE DEF IsSum
  <2> QED BY <1>3, Zenon
<1>5. sum[0] = 0 /\ \A i \in 1 .. n : sum[i] = sum[i - 1] + Router!HopCost(i)
  <2>1. \A i \in 0 .. n : sum[i] = IF i = 0 THEN 0 ELSE sum[i - 1] + Router!HopCost(i)
    <3> HIDE DEF sum
    <3> QED BY <1>4
  <2>2. 0 \in 0 .. n /\ \A i \in 1 .. n : i \in 0 .. n /\ i # 0
    BY <1>2
  <2> HIDE DEF sum
  <2> QED BY <2>1, <2>2
<1> DEFINE S == {k \in Nat : k <= n => sum[k] = f[k]}
<1>6. S = Nat
  <2> HIDE DEF sum, n
  <2>1. 0 \in S
    BY <1>2, <1>5
  <2>2. ASSUME NEW k \in S PROVE k + 1 \in S
    <3>1. ASSUME k + 1 <= n PROVE sum[k + 1] = f[k + 1]
      <4>1. k \in Nat /\ sum[k] = f[k] /\ k + 1 \in 1 .. n /\ (k + 1) - 1 = k
        BY <1>2, <3>1
      <4> QED BY <1>2, <1>5, <4>1
    <3> QED BY <3>1
  <2>3. S \in SUBSET Nat
    OBVIOUS
  <2> HIDE DEF S
  <2> QED BY <2>1, <2>2, <2>3, EveryNumber
<1>7. total = sum[n]
  <2> HIDE DEF sum, n
  <2> QED BY <1>1, <1>2, <1>6
<1> QED BY <1>7, Zenon DEF Router!CostOfPath

LEMMA OnwardsGrow ==
  ASSUME NEW T, NEW p \in Seq(T), p # <<>>, NEW n \in T, Onwards(p),
         Router!Level(n) \in {Router!Level(p[Len(p)]), Router!Level(p[Len(p)]) + 1}
  PROVE  /\ Onwards(Append(p, n)) /\ Append(p, n) # <<>> /\ Append(p, n)[1] = p[1]
         /\ Append(p, n)[Len(Append(p, n))] = n
<1> DEFINE q == Append(p, n)  k == Len(p)
<1>1. /\ k \in Nat \ {0} /\ Len(q) = k + 1 /\ q[k + 1] = n /\ q # <<>>
      /\ \A i \in 1 .. k : q[i] = p[i]
  OBVIOUS
<1> HIDE DEF q, k
<1>2. ASSUME NEW i \in 1 .. Len(q) - 1
      PROVE  Router!Level(q[i + 1]) \in {Router!Level(q[i]), Router!Level(q[i]) + 1}
  <2>1. CASE i = k
    BY <1>1, <2>1 DEF k
  <2>2. CASE i # k
    <3>1. i \in 1 .. k - 1 /\ q[i] = p[i] /\ q[i + 1] = p[i + 1]
      BY <1>1, <1>2, <2>2
    <3> QED BY <3>1 DEF Onwards, k
  <2> QED BY <2>1, <2>2
<1>3. 1 \in 1 .. k
  BY <1>1
<1> QED BY <1>1, <1>2, <1>3 DEF Onwards, q, k

LEMMA RouterStarts ==
  ASSUME Router!DtnAssumption, Router!Init
  PROVE  RouterInv
<1>1. /\ NetNodes \in Nat \ {0} /\ Router!Receiver \in Nat \ {0}
      /\ Router!Sender = Router!Receiver + 1 /\ Router!Receiver >= NetNodes
  BY Grid
<1>2. 0 \in Router!OfLevel(0) /\ 0 \in 0 .. Router!Sender
  <2>1. 0 \in 0 .. NetNodes - 1 /\ 0 * NetNodes + 0 = 0
    BY <1>1
  <2> QED BY <1>1, <2>1 DEF Router!OfLevel
<1>3. /\ up = [n \in 0 .. Router!Sender |-> TRUE]
      /\ cost \in [Router!Inner \cup {Router!Sender} -> NetCosts]
      /\ phase = "first" /\ run = 0 /\ node = Router!Sender /\ total = 0 /\ path = <<>>
  BY DEF Router!Init
<1>4. Router!TypeOK
  <2>1. up \in [0 .. Router!Sender -> BOOLEAN] /\ up[Router!Receiver] /\ up[Router!Sender]
    BY <1>1, <1>3
  <2>2. run \in 0 .. NetRuns
    BY <1>3 DEF Router!DtnAssumption
  <2>3. node \in 0 .. Router!Sender /\ path \in Seq(0 .. Router!Receiver)
    BY <1>1, <1>3
  <2>4. Len(path) = 0 /\ PathLen \in Nat
    BY <1>3 DEF Router!DtnAssumption
  <2> QED BY <1>3, <2>1, <2>2, <2>3, <2>4 DEF Router!TypeOK
<1> QED BY <1>2, <1>3, <1>4 DEF RouterInv

LEMMA FirstStep ==
  ASSUME Router!DtnAssumption, RouterInv, Router!First
  PROVE  RouterInv'
<1> DEFINE n == Router!Cheapest(Router!Sender, 0, NetNodes)
<1>1. /\ NetNodes \in Nat \ {0} /\ Router!Receiver \in Nat \ {0}
      /\ Router!Sender = Router!Receiver + 1 /\ Router!Receiver >= NetNodes
  BY Grid
<1>2. /\ Router!TypeOK /\ phase = "first" /\ path = <<>> /\ total = 0
      /\ \E m \in Router!OfLevel(0) : up[m]
  BY DEF RouterInv, Router!First
<1>3. cost[Router!Sender] \in NetCosts /\ NetCosts # {}
  BY <1>2 DEF Router!TypeOK
<1>4. cost[Router!Sender] \in [0 .. NetNodes - 1 -> Nat]
  BY <1>3 DEF Router!DtnAssumption
<1>5. Chosen(Router!Sender, 0, NetNodes, n)
  <2>1. \A i \in 1 .. NetNodes : /\ cost[Router!Sender][i - 1] \in Nat
                                 /\ Router!Sender # 0 + i - 1
    <3> TAKE i \in 1 .. NetNodes
    <3>1. i - 1 \in 0 .. NetNodes - 1 /\ Router!Sender # 0 + i - 1
      BY <1>1
    <3> QED BY <1>4, <3>1
  <2>2. NetNodes \in Nat /\ 0 \in Nat
    BY <1>1
  <2> HIDE DEF n
  <2>3. Chosen(Router!Sender, 0, NetNodes, Router!Cheapest(Router!Sender, 0, NetNodes))
    BY <2>1, <2>2, CheapestIs
  <2> QED BY <2>3 DEF n
<1>6. phase' = "route" /\ node' = n /\ path' = Append(path, n) /\ UNCHANGED <<up, cost, run>>
      /\ total' = IF n = Router!Sender THEN 0 ELSE cost[Router!Sender][n]
  BY DEF Router!First
<1> HIDE DEF n
<1>7. Router!OfLevel(0) = 0 .. NetNodes - 1
  <2>1. \A i \in 0 .. NetNodes - 1 : 0 * NetNodes + i = i
    BY <1>1
  <2> QED BY <2>1 DEF Router!OfLevel
<1>8. n \in 0 .. NetNodes - 1
  <2>1. PICK m \in 0 .. NetNodes - 1 : up[m]
    BY <1>2, <1>7
  <2>2. m + 1 \in 1 .. NetNodes /\ 0 + (m + 1) - 1 = m
    BY <1>1
  <2>3. \E i \in 1 .. NetNodes : n = 0 + i - 1
    BY <1>5, <2>1, <2>2 DEF Chosen
  <2> QED BY <1>1, <2>3
<1>9. n \in 0 .. Router!Receiver /\ n # Router!Sender /\ n \in 0 .. Router!Sender
  BY <1>1, <1>8
<1>10. path' = <<n>> /\ Len(path') = 1 /\ path'[1] = n
  BY <1>2, <1>6
<1>11. SumsTo(path', cost', total')
  <2> DEFINE f == [i \in 0 .. 1 |-> IF i = 0 THEN 0 ELSE total']
  <2>1. total' = cost[Router!Sender][n] /\ cost[Router!Sender][n] \in Nat
    BY <1>4, <1>6, <1>8, <1>9
  <2>2. f \in [0 .. 1 -> Nat] /\ f[0] = 0 /\ f[1] = total' /\ 1 - 1 = 0
    BY <2>1
  <2>3. HopIn(path', cost', 1) = total'
    BY <1>6, <1>10, <2>1 DEF HopIn
  <2>4. \A i \in 1 .. 1 : i = 1
    OBVIOUS
  <2> HIDE DEF f
  <2>5. \A i \in 1 .. Len(path') : f[i] = f[i - 1] + HopIn(path', cost', i)
    BY <1>10, <2>1, <2>2, <2>3, <2>4
  <2> QED BY <1>10, <2>2, <2>5 DEF SumsTo, Sums
<1>12. Onwards(path')
  BY <1>10 DEF Onwards
<1>13. Router!TypeOK'
  <2>1. path' \in Seq(0 .. Router!Receiver)
    BY <1>9, <1>10
  <2>2. Len(path') = 1 /\ PathLen \in Nat /\ PathLen > NetNodes
    BY <1>10 DEF Router!DtnAssumption
  <2>3. Len(path') <= PathLen + 1 /\ ~(Len(path') > PathLen)
    BY <1>1, <2>2
  <2> QED BY <1>2, <1>6, <1>9, <2>1, <2>3 DEF Router!TypeOK
<1>14. path' # <<>> /\ node' = path'[Len(path')] /\ path'[1] \in Router!OfLevel(0)
  <2>1. path' # <<>> /\ node' = path'[Len(path')]
    BY <1>6, <1>10
  <2>2. path'[1] \in Router!OfLevel(0)
    BY <1>7, <1>8, <1>10, Zenon
  <2> QED BY <2>1, <2>2
<1>15. \A i \in 1 .. Len(path') : Router!Level(path'[i]) <= Router!Level(node')
  <2>1. \A i \in 1 .. Len(path') : i = 1
    BY <1>10
  <2>2. Router!Level(n) \in Int
    BY <1>1, <1>8, Division DEF Router!Level
  <2> QED BY <1>6, <1>10, <2>1, <2>2
<1>16. Len(path') <= Router!Level(node') + 1
  <2>1. n \in 0 .. Router!Receiver - 1
    BY <1>1, <1>8
  <2>2. Router!Level(n) \in 0 .. NetNodes - 1
    BY <2>1, LevelOfNode
  <2> QED BY <1>1, <1>6, <1>10, <2>2
<1> QED BY <1>6, <1>11, <1>12, <1>13, <1>14, <1>15, <1>16 DEF RouterInv

\* What a path holds is what it is drawn from, and a place more keeps the others.
LEMMA PlacesOf ==
  ASSUME NEW T, NEW p \in Seq(T), p # <<>>, NEW n \in T
  PROVE  /\ Len(p) \in Nat \ {0} /\ Len(Append(p, n)) = Len(p) + 1
         /\ \A i \in 1 .. Len(p) : Append(p, n)[i] = p[i] /\ p[i] \in T
         /\ Append(p, n)[Len(p) + 1] = n
  OBVIOUS

LEMMA LastOf ==
  ASSUME NEW T, NEW p \in Seq(T), p # <<>>
  PROVE  p[Len(p)] \in T
<1>1. Len(p) \in 1 .. Len(p) /\ p \in [1 .. Len(p) -> T]
  OBVIOUS
<1> QED BY <1>1, Zenon

\* The next node, while the message is on its way.
LEMMA NextIs ==
  ASSUME Router!DtnAssumption, RouterInv, Router!Routing
  PROVE  /\ node \in 0 .. Router!Receiver - 1 /\ cost[node] \in NetCosts
         /\ Chosen(node, Router!Ahead, Router!Neighbours, Router!Next1)
<1>1. /\ NetNodes \in Nat \ {0} /\ Router!Receiver \in Nat \ {0}
      /\ Router!Level(Router!Receiver) = NetNodes /\ Router!Inner = 0 .. Router!Receiver - 1
  BY Grid
<1>2. node \in 0 .. Router!Receiver - 1
  <2>1. path \in Seq(0 .. Router!Receiver) /\ path # <<>> /\ node = path[Len(path)]
    BY DEF RouterInv, Router!TypeOK, Router!Routing
  <2>2. node \in 0 .. Router!Receiver
    BY <2>1, LastOf, Zenon
  <2>3. node # Router!Receiver
    BY <1>1 DEF Router!Routing, Router!Levels
  <2> QED BY <1>1, <2>2, <2>3
<1>3. cost[node] \in NetCosts
  BY <1>1, <1>2 DEF RouterInv, Router!TypeOK
<1>4. cost[node] \in [0 .. NetNodes - 1 -> Nat]
  BY <1>3 DEF Router!DtnAssumption
<1>5. /\ Router!Ahead \in Nat /\ Router!Neighbours \in Nat /\ Router!Neighbours <= NetNodes
      /\ Router!Ahead > node
  BY <1>2, AheadIs
<1>6. \A i \in 1 .. Router!Neighbours : /\ cost[node][i - 1] \in Nat
                                        /\ node # Router!Ahead + i - 1
  <2> TAKE i \in 1 .. Router!Neighbours
  <2>1. i - 1 \in 0 .. NetNodes - 1
    BY <1>1, <1>5
  <2>2. node # Router!Ahead + i - 1
    BY <1>2, <1>5
  <2> QED BY <1>4, <2>1, <2>2
<1>7. Chosen(node, Router!Ahead, Router!Neighbours,
             Router!Cheapest(node, Router!Ahead, Router!Neighbours))
  BY <1>5, <1>6, CheapestIs
<1> QED BY <1>2, <1>3, <1>7 DEF Router!Next1

\* A step of the route, forward or beside.
LEMMA RouteGrows ==
  ASSUME Router!DtnAssumption, RouterInv, phase = "route", NEW n \in 0 .. Router!Receiver,
         NEW c \in Nat, node' = n, path' = Append(path, n), total' = total + c,
         \A i \in 1 .. Len(path) : HopIn(path, cost', i) = HopIn(path, cost, i),
         \/ Router!Level(n) = Router!Level(node) /\ c = WaitCost
         \/ Router!Level(n) = Router!Level(node) + 1 /\ c = cost'[node][n % NetNodes]
  PROVE  /\ path' \in Seq(0 .. Router!Receiver)
         /\ path' # <<>> /\ node' = path'[Len(path')]
         /\ path'[1] \in Router!OfLevel(0) /\ Onwards(path')
         /\ SumsTo(path', cost', total')
         /\ \A i \in 1 .. Len(path') : Router!Level(path'[i]) <= Router!Level(node')
         /\ Len(path') <= Router!Level(node') + 1 \/ Waited(path')
         /\ Len(path) <= PathLen /\ Len(path') = Len(path) + 1
<1>1. /\ path # <<>> /\ node = path[Len(path)] /\ path[1] \in Router!OfLevel(0)
      /\ Onwards(path) /\ SumsTo(path, cost, total)
      /\ \A i \in 1 .. Len(path) : Router!Level(path[i]) <= Router!Level(node)
      /\ path \in Seq(0 .. Router!Receiver)
      /\ Len(path) <= Router!Level(node) + 1 \/ Waited(path)
  BY DEF RouterInv, Router!TypeOK
<1>2. path' \in Seq(0 .. Router!Receiver)
  BY <1>1
<1>3. Router!Level(n) \in {Router!Level(path[Len(path)]), Router!Level(path[Len(path)]) + 1}
  BY <1>1
<1>4. /\ Onwards(path') /\ path' # <<>> /\ path'[1] = path[1] /\ path'[Len(path')] = n
  BY <1>1, <1>3, OnwardsGrow
<1>5. \A m \in 0 .. Router!Receiver : Router!Level(m) \in Int
  <2>1. NetNodes \in Nat \ {0} /\ Router!Receiver \in Nat
    BY Grid
  <2> QED BY <2>1, Division DEF Router!Level
<1>6. /\ Len(path) \in Nat \ {0} /\ Len(path') = Len(path) + 1
      /\ \A i \in 1 .. Len(path) : path'[i] = path[i] /\ path[i] \in 0 .. Router!Receiver
      /\ path'[Len(path) + 1] = n
  <2>1. path \in Seq(0 .. Router!Receiver) /\ path # <<>> /\ path' = Append(path, n)
    BY <1>1
  <2> DEFINE T == 0 .. Router!Receiver
  <2>2. path \in Seq(T) /\ n \in T
    BY <2>1
  <2> HIDE DEF T
  <2>3. /\ Len(path) \in Nat \ {0} /\ Len(Append(path, n)) = Len(path) + 1
        /\ \A i \in 1 .. Len(path) : Append(path, n)[i] = path[i] /\ path[i] \in T
        /\ Append(path, n)[Len(path) + 1] = n
    BY <2>1, <2>2, PlacesOf
  <2>4. path[1] \in T /\ path' = Append(path, n)
    BY <2>1, <2>3
  <2> QED BY <2>3, <2>4 DEF T
<1>7. node \in 0 .. Router!Receiver
  BY <1>1, LastOf, Zenon
<1>8. HopIn(path', cost', Len(path) + 1) = c
  <2>1. path'[(Len(path) + 1) - 1] = node /\ Len(path) + 1 # 1
    BY <1>1, <1>6
  <2>2. Router!Level(n) = Router!Level(node) + 1 => Router!Level(n) # Router!Level(node)
    BY <1>5, <1>7
  <2> QED BY <1>6, <2>1, <2>2 DEF HopIn
<1>9. SumsTo(path', cost', total')
  <2>1. HopIn(Append(path, n), cost', Len(path) + 1) = c
    BY <1>8
  <2>2. SumsTo(Append(path, n), cost', total + c)
    BY <1>1, <2>1, SumGrows
  <2> QED BY <2>2
<1>10. ASSUME NEW i \in 1 .. Len(path')
       PROVE  Router!Level(path'[i]) <= Router!Level(node')
  <2>1. Router!Level(node) <= Router!Level(n) /\ Router!Level(n) <= Router!Level(n)
    BY <1>5, <1>7
  <2>2. CASE i = Len(path) + 1
    BY <1>6, <2>1, <2>2
  <2>3. CASE i # Len(path) + 1
    <3>1. i \in 1 .. Len(path)
      BY <1>6, <2>3
    <3>2. /\ Router!Level(path[i]) \in Int /\ Router!Level(node) \in Int /\ Router!Level(n) \in Int
          /\ Router!Level(path[i]) <= Router!Level(node) /\ path'[i] = path[i]
      BY <1>1, <1>5, <1>6, <1>7, <3>1
    <3> QED BY <2>1, <3>2
  <2> QED BY <2>2, <2>3
<1>11. Len(path') <= Router!Level(node') + 1 \/ Waited(path')
  <2>1. CASE Waited(path)
    <3>1. PICK i \in 1 .. Len(path) - 1 : Router!Level(path[i]) = Router!Level(path[i + 1])
      BY <2>1 DEF Waited
    <3>2. i \in 1 .. Len(path) /\ i + 1 \in 1 .. Len(path) /\ i \in 1 .. Len(path') - 1
      BY <1>6
    <3>3. path'[i] = path[i] /\ path'[i + 1] = path[i + 1]
      BY <1>6, <3>2
    <3> QED BY <3>1, <3>2, <3>3 DEF Waited
  <2>2. CASE Router!Level(n) = Router!Level(node)
    <3>1. Len(path) \in 1 .. Len(path') - 1 /\ Len(path) \in 1 .. Len(path)
      BY <1>6
    <3>2. path'[Len(path)] = node /\ path'[Len(path) + 1] = n
      BY <1>1, <1>6, <3>1
    <3> QED BY <2>2, <3>1, <3>2 DEF Waited
  <2>3. CASE Router!Level(n) = Router!Level(node) + 1 /\ ~Waited(path)
    <3>1. Len(path) <= Router!Level(node) + 1 /\ Router!Level(node) \in Int
      BY <1>1, <1>5, <1>7, <2>3
    <3>2. Len(path) + 1 <= Router!Level(n) + 1
      BY <1>6, <2>3, <3>1
    <3> QED BY <1>6, <3>2
  <2> QED BY <2>1, <2>2, <2>3
<1>12. Len(path) <= PathLen
  <2>1. PathLen \in Nat /\ ~(Len(path) > PathLen)
    BY DEF RouterInv, Router!TypeOK, Router!DtnAssumption
  <2> QED BY <1>6, <2>1
<1>13. Len(path') = Len(path) + 1
  BY <1>6
<1> QED BY <1>1, <1>2, <1>4, <1>9, <1>10, <1>11, <1>12, <1>13

\* The path's bound, kept by a place more.
Bounded ==
  /\ phase \in {"route", "overrun"}
  /\ Len(path) <= PathLen + 1 /\ (phase = "overrun" <=> Len(path) > PathLen)

LEMMA PathBounded ==
  ASSUME Router!DtnAssumption, RouterInv,
         Len(path) <= PathLen, Len(path') = Len(path) + 1,
         phase' = IF Len(path) < PathLen THEN "route" ELSE "overrun"
  PROVE  Bounded'
<1>1. PathLen \in Nat
  BY DEF Router!DtnAssumption
<1>2. Len(path) \in Nat
  BY DEF RouterInv, Router!TypeOK
<1>3. CASE Len(path) < PathLen
  <2>1. phase' = "route" /\ Len(path') <= PathLen + 1 /\ ~(Len(path') > PathLen)
    BY <1>1, <1>2, <1>3
  <2> QED BY <2>1 DEF Bounded
<1>4. CASE ~(Len(path) < PathLen)
  <2>1. phase' = "overrun" /\ Len(path') <= PathLen + 1 /\ Len(path') > PathLen
    BY <1>1, <1>2, <1>4
  <2> QED BY <2>1 DEF Bounded
<1> QED BY <1>3, <1>4

LEMMA ForwardStep ==
  ASSUME Router!DtnAssumption, RouterInv, Router!Forward
  PROVE  /\ RouterInv'
         /\ node' \in Ahead(node) /\ up[node']
         /\ \A n \in Ahead(node) :
                up[n] => cost[node][node' - Router!Ahead] <= cost[node][n - Router!Ahead]
<1>1. /\ Router!Routing /\ Router!Next1 # node /\ node' = Router!Next1
      /\ path' = Append(path, Router!Next1)
      /\ total' = total + cost[node][Router!Next1 - Router!Ahead]
      /\ UNCHANGED <<up, cost, run>> /\ phase = "route"
      /\ phase' = IF Len(path) < PathLen THEN "route" ELSE "overrun"
  BY DEF Router!Forward, Router!Routing, Router!Entered
<1>2. /\ node \in 0 .. Router!Receiver - 1 /\ cost[node] \in NetCosts
      /\ Chosen(node, Router!Ahead, Router!Neighbours, Router!Next1)
  BY <1>1, NextIs
<1>3. /\ Router!Ahead \in Nat /\ Router!Neighbours \in Nat /\ Router!Neighbours <= NetNodes
      /\ Ahead(node) = {Router!Ahead + i - 1 : i \in 1 .. Router!Neighbours}
      /\ \A n \in Ahead(node) : /\ n \in 0 .. Router!Receiver
                                /\ Router!Level(n) = Router!Level(node) + 1
  BY <1>2, AheadIs
<1>4. PICK i \in 1 .. Router!Neighbours :
         /\ Router!Next1 = Router!Ahead + i - 1 /\ up[Router!Next1]
         /\ \A j \in 1 .. Router!Neighbours :
              up[Router!Ahead + j - 1] => cost[node][i - 1] <= cost[node][j - 1]
  BY <1>1, <1>2 DEF Chosen
<1>5. Router!Next1 \in Ahead(node) /\ Router!Next1 - Router!Ahead = i - 1
  BY <1>3, <1>4
<1>6. ASSUME NEW n \in Ahead(node), up[n]
      PROVE  cost[node][node' - Router!Ahead] <= cost[node][n - Router!Ahead]
  <2>1. PICK j \in 1 .. Router!Neighbours : n = Router!Ahead + j - 1
    BY <1>3
  <2>2. n - Router!Ahead = j - 1
    BY <1>3, <2>1
  <2> QED BY <1>1, <1>4, <1>5, <1>6, <2>1, <2>2
<1>7. RouterInv'
  <2> DEFINE n == Router!Next1  c == cost[node][n - Router!Ahead]
  <2>1. NetCosts # {} /\ NetNodes \in Nat \ {0} /\ Router!Level(node) \in 0 .. NetNodes - 1
        /\ Router!Sender = Router!Receiver + 1 /\ Router!Receiver \in Nat
    BY <1>2, Grid, LevelOfNode
  <2>2. i - 1 \in 0 .. NetNodes - 1
    BY <1>3, <2>1
  <2>3. c \in Nat
    <3>1. cost[node] \in [0 .. NetNodes - 1 -> Nat]
      BY <1>2 DEF Router!DtnAssumption
    <3> QED BY <1>5, <2>2, <3>1
  <2>4. n \in 0 .. Router!Receiver /\ Router!Level(n) = Router!Level(node) + 1
    BY <1>3, <1>5
  <2>5. /\ node' = n /\ path' = Append(path, n) /\ total' = total + c
        /\ Router!Level(node) \in Int /\ cost' = cost
    BY <1>1, <2>1
  <2>9. c = cost'[node][n % NetNodes]
    <3> DEFINE l == Router!Level(node) + 1
    <3>1. l \in Int /\ NetNodes * l = l * NetNodes /\ NetNodes * l \in Int
      BY <2>1
    <3>2. Router!Ahead = NetNodes * l
      BY <3>1 DEF Router!Ahead
    <3>3. (NetNodes * l + (i - 1)) % NetNodes = i - 1
      BY <2>1, <2>2, <3>1, Quotient
    <3>4. n = NetNodes * l + (i - 1)
      <4> DEFINE base == NetNodes * l
      <4>1. Router!Ahead = base /\ base \in Int /\ n = Router!Ahead + i - 1
        BY <1>4, <3>1, <3>2
      <4> HIDE DEF base, n
      <4>2. n = base + (i - 1)
        BY <1>3, <4>1
      <4> QED BY <4>2 DEF base
    <3> HIDE DEF l
    <3> QED BY <1>5, <2>5, <3>3, <3>4
  <2> HIDE DEF n, c
  <2>6. /\ path' \in Seq(0 .. Router!Receiver)
        /\ path' # <<>> /\ node' = path'[Len(path')]
        /\ path'[1] \in Router!OfLevel(0) /\ Onwards(path')
        /\ SumsTo(path', cost', total')
        /\ \A j \in 1 .. Len(path') : Router!Level(path'[j]) <= Router!Level(node')
        /\ Len(path') <= Router!Level(node') + 1 \/ Waited(path')
        /\ Len(path) <= PathLen /\ Len(path') = Len(path) + 1
    <3>1. \A j \in 1 .. Len(path) : HopIn(path, cost', j) = HopIn(path, cost, j)
      BY <2>5
    <3> QED BY <1>1, <2>3, <2>4, <2>5, <2>9, <3>1, RouteGrows
  <2>7. node' \in 0 .. Router!Sender
    BY <2>1, <2>4, <2>5
  <2>10. Bounded'
    BY <1>1, <2>6, PathBounded
  <2>8. Router!TypeOK'
    BY <1>1, <2>6, <2>7, <2>10 DEF RouterInv, Router!TypeOK, Bounded
  <2> QED BY <1>1, <2>6, <2>8 DEF RouterInv
<1> QED BY <1>1, <1>4, <1>5, <1>6, <1>7

LEMMA WaitStep ==
  ASSUME Router!DtnAssumption, RouterInv, Router!Wait
  PROVE  /\ RouterInv'
         /\ Ahead(node) \cap {n \in DOMAIN up : up[n]} = {}
         /\ Ahead(node) # {Router!Receiver}
<1>1. /\ Router!Routing /\ Router!Next1 = node /\ node' = Router!Beside(node)
      /\ path' = Append(path, Router!Beside(node)) /\ total' = total + WaitCost
      /\ Router!Redraw(Router!OfLevel(Router!Level(node) + 1))
      /\ UNCHANGED run /\ phase = "route"
      /\ phase' = IF Len(path) < PathLen THEN "route" ELSE "overrun"
  BY DEF Router!Wait, Router!Routing, Router!Entered
<1>2. /\ node \in 0 .. Router!Receiver - 1 /\ cost[node] \in NetCosts
      /\ Chosen(node, Router!Ahead, Router!Neighbours, Router!Next1)
  BY <1>1, NextIs
<1>3. /\ NetNodes \in Nat \ {0} /\ Router!Receiver \in Nat \ {0}
      /\ Router!Sender = Router!Receiver + 1 /\ Router!Inner = 0 .. Router!Receiver - 1
      /\ Router!Level(node) \in 0 .. NetNodes - 1
  BY <1>2, Grid, LevelOfNode
<1>4. /\ Router!Ahead \in Nat /\ Router!Neighbours \in Nat /\ Router!Ahead > node
      /\ Ahead(node) = {Router!Ahead + i - 1 : i \in 1 .. Router!Neighbours}
      /\ Router!Level(node) # NetNodes - 1 => Router!Receiver \notin Ahead(node)
  BY <1>2, AheadIs
<1>5. \A i \in 1 .. Router!Neighbours : ~up[Router!Ahead + i - 1]
  <2>1. \A i \in 1 .. Router!Neighbours : node # Router!Ahead + i - 1
    BY <1>2, <1>4
  <2> QED BY <1>1, <1>2, <2>1 DEF Chosen
<1>6. \A n \in Ahead(node) : ~up[n]
  BY <1>4, <1>5
<1>7. Ahead(node) \cap {n \in DOMAIN up : up[n]} = {}
  BY <1>6
<1>8. /\ up \in [0 .. Router!Sender -> BOOLEAN] /\ up[Router!Receiver] /\ up[Router!Sender]
      /\ cost \in [Router!Inner \cup {Router!Sender} -> NetCosts] /\ NetCosts # {}
  BY <1>2 DEF RouterInv, Router!TypeOK
<1>9. Router!Receiver \notin Ahead(node)
  BY <1>6, <1>8
<1>10. Router!Level(node) # NetNodes - 1
  BY <1>9 DEF Ahead
<1>11. Router!Level(node) + 1 \in 0 .. NetNodes - 1
  BY <1>3, <1>10
<1> DEFINE drawn == Router!OfLevel(Router!Level(node) + 1)
<1>12. \A n \in drawn : n \in 0 .. Router!Receiver - 1
  <2> TAKE n \in drawn
  <2>1. PICK i \in 0 .. NetNodes - 1 : n = (Router!Level(node) + 1) * NetNodes + i
    BY DEF Router!OfLevel
  <2> QED BY <1>11, <2>1, LevelHas
<1> HIDE DEF drawn
<1>13. /\ up' \in [0 .. Router!Sender -> BOOLEAN] /\ up'[Router!Receiver] /\ up'[Router!Sender]
  <2>1. PICK s \in [drawn -> BOOLEAN] :
           up' = [n \in DOMAIN up |-> IF n \in drawn THEN s[n] ELSE up[n]]
    BY <1>1 DEF Router!Redraw, drawn
  <2>2. Router!Receiver \notin drawn /\ Router!Sender \notin drawn
    BY <1>3, <1>12
  <2>3. Router!Receiver \in 0 .. Router!Sender /\ Router!Sender \in 0 .. Router!Sender
    BY <1>3
  <2> QED BY <1>8, <2>1, <2>2, <2>3
<1>14. cost' \in [Router!Inner \cup {Router!Sender} -> NetCosts]
  <2>1. PICK r \in [drawn -> NetCosts] :
           cost' = [n \in DOMAIN cost |-> IF n \in drawn THEN r[n] ELSE cost[n]]
    BY <1>1 DEF Router!Redraw, drawn
  <2> QED BY <1>8, <2>1
<1>15. Router!Beside(node) \in 0 .. Router!Receiver - 1
       /\ Router!Level(Router!Beside(node)) = Router!Level(node)
  BY <1>2, BesideIs
<1>16. Router!Beside(node) \in 0 .. Router!Receiver /\ Router!Beside(node) \in 0 .. Router!Sender
  BY <1>3, <1>15
<1>17. WaitCost \in Nat /\ Router!Level(node) \in Int
  BY <1>3 DEF Router!DtnAssumption
<1>18. /\ path' \in Seq(0 .. Router!Receiver)
       /\ path' # <<>> /\ node' = path'[Len(path')]
       /\ path'[1] \in Router!OfLevel(0) /\ Onwards(path')
       /\ SumsTo(path', cost', total')
       /\ \A i \in 1 .. Len(path') : Router!Level(path'[i]) <= Router!Level(node')
       /\ Len(path') <= Router!Level(node') + 1 \/ Waited(path')
       /\ Len(path) <= PathLen /\ Len(path') = Len(path) + 1
  <2>1. PICK r \in [drawn -> NetCosts] :
           cost' = [n \in DOMAIN cost |-> IF n \in drawn THEN r[n] ELSE cost[n]]
    BY <1>1 DEF Router!Redraw, drawn
  <2>2. cost'[Router!Sender] = cost[Router!Sender]
    <3>1. Router!Sender \notin drawn
      BY <1>3, <1>12
    <3> QED BY <1>8, <2>1, <3>1
  <2>3. /\ path \in Seq(0 .. Router!Receiver) /\ Len(path) \in Nat
        /\ \A i \in 1 .. Len(path) : /\ path[i] \in 0 .. Router!Receiver
                                     /\ Router!Level(path[i]) <= Router!Level(node)
    <3>1. path \in Seq(0 .. Router!Receiver)
      BY <1>1, Zenon DEF RouterInv, Router!TypeOK
    <3>2. \A i \in 1 .. Len(path) : Router!Level(path[i]) <= Router!Level(node)
      BY <1>1, Zenon DEF RouterInv
    <3>3. path # <<>> /\ 0 \in 0 .. Router!Receiver
      BY <1>1, <1>3 DEF RouterInv
    <3>4. Len(path) \in Nat /\ \A i \in 1 .. Len(path) : path[i] \in 0 .. Router!Receiver
      <4> DEFINE T == 0 .. Router!Receiver
      <4>1. path \in Seq(T) /\ path # <<>> /\ 0 \in T
        BY <3>1, <3>3
      <4> HIDE DEF T
      <4>2. Len(path) \in Nat \ {0} /\ \A i \in 1 .. Len(path) : path[i] \in T
        BY <4>1, PlacesOf
      <4> QED BY <4>2 DEF T
    <3> QED BY <3>1, <3>2, <3>4, Zenon
  <2>4. ASSUME NEW i \in 1 .. Len(path)
        PROVE  cost'[path[i]] = cost[path[i]]
    <3>1. path[i] \notin drawn
      <4>1. ASSUME path[i] \in drawn PROVE FALSE
        <5>1. PICK j \in 0 .. NetNodes - 1 : path[i] = (Router!Level(node) + 1) * NetNodes + j
          BY <4>1 DEF Router!OfLevel, drawn
        <5>2. Router!Level(path[i]) = Router!Level(node) + 1
          BY <1>11, <5>1, LevelHas
        <5> QED BY <1>3, <2>3, <5>2
      <4> QED BY <4>1
    <3>2. path[i] \in DOMAIN cost
      <4>1. path[i] # Router!Receiver
        <5>1. Router!Level(Router!Receiver) = NetNodes
          BY Grid
        <5>2. Router!Level(path[i]) <= Router!Level(node)
          BY <2>3
        <5> QED BY <1>3, <5>1, <5>2
      <4>2. path[i] \in 0 .. Router!Receiver
        BY <2>3
      <4>3. path[i] \in Router!Inner
        BY <1>3, <4>1, <4>2
      <4> QED BY <1>8, <4>3
    <3> QED BY <2>1, <3>1, <3>2
  <2>5. \A i \in 1 .. Len(path) : HopIn(path, cost', i) = HopIn(path, cost, i)
    <3> TAKE i \in 1 .. Len(path)
    <3>1. i # 1 => i - 1 \in 1 .. Len(path)
      BY <2>3
    <3> QED BY <2>2, <2>4, <3>1 DEF HopIn
  <2> QED BY <1>1, <1>15, <1>16, <1>17, <2>5, RouteGrows
<1>22. Bounded'
  BY <1>1, <1>18, PathBounded
<1>19. Router!TypeOK'
  BY <1>1, <1>13, <1>14, <1>16, <1>18, <1>22 DEF RouterInv, Router!TypeOK, Bounded
<1>20. RouterInv'
  BY <1>1, <1>18, <1>19 DEF RouterInv
<1>21. Ahead(node) # {Router!Receiver}
  BY <1>9
<1> QED BY <1>7, <1>20, <1>21

LEMMA ArriveStep ==
  ASSUME Router!DtnAssumption, RouterInv, Router!Arrive
  PROVE  RouterInv'
<1>1. /\ NetNodes \in Nat \ {0} /\ Router!Receiver \in Nat \ {0}
      /\ Router!Sender = Router!Receiver + 1 /\ Router!Inner = 0 .. Router!Receiver - 1
      /\ Router!Receiver >= NetNodes
  BY Grid
<1>2. /\ up \in [0 .. Router!Sender -> BOOLEAN] /\ up[Router!Receiver] /\ up[Router!Sender]
      /\ cost \in [Router!Inner \cup {Router!Sender} -> NetCosts] /\ run \in 0 .. NetRuns
      /\ NetRuns \in Nat
  BY DEF RouterInv, Router!TypeOK, Router!DtnAssumption
<1>3. /\ run < NetRuns /\ cost' \in [DOMAIN cost -> NetCosts]
      /\ phase' = "first" /\ run' = run + 1
      /\ node' = Router!Sender /\ total' = 0 /\ path' = <<>>
  BY DEF Router!Arrive
<1>4. PICK s \in [Router!Inner -> BOOLEAN] : \E t \in Router!Repaired(s) :
         up' = [n \in DOMAIN up |-> IF n \in Router!Inner THEN t[n] ELSE up[n]]
  BY DEF Router!Arrive
<1>5. PICK t \in Router!Repaired(s) :
         up' = [n \in DOMAIN up |-> IF n \in Router!Inner THEN t[n] ELSE up[n]]
  BY <1>4
<1>6. Router!OfLevel(0) = 0 .. NetNodes - 1
  <2>1. \A i \in 0 .. NetNodes - 1 : 0 * NetNodes + i = i
    BY <1>1
  <2> QED BY <2>1 DEF Router!OfLevel
<1>7. \A n \in 0 .. NetNodes - 1 : n \in Router!Inner /\ n \in 0 .. Router!Sender
  BY <1>1
<1>8. t \in [Router!Inner -> BOOLEAN] /\ \E n \in 0 .. NetNodes - 1 : t[n]
  <2>1. CASE \A n \in Router!OfLevel(0) : ~s[n]
    <3>1. PICK n \in 0 .. NetNodes - 1 : t = [s EXCEPT ![n] = TRUE]
      BY <1>6, <2>1 DEF Router!Repaired
    <3> QED BY <1>7, <3>1
  <2>2. CASE ~ \A n \in Router!OfLevel(0) : ~s[n]
    <3>1. t = s
      BY <2>2 DEF Router!Repaired
    <3> QED BY <1>6, <2>2, <3>1
  <2> QED BY <2>1, <2>2
<1>9. \E n \in Router!OfLevel(0) : up'[n]
  BY <1>2, <1>5, <1>6, <1>7, <1>8
<1>10. up' \in [0 .. Router!Sender -> BOOLEAN] /\ up'[Router!Receiver] /\ up'[Router!Sender]
  <2>1. /\ Router!Receiver \notin Router!Inner /\ Router!Sender \notin Router!Inner
        /\ Router!Receiver \in 0 .. Router!Sender /\ Router!Sender \in 0 .. Router!Sender
    BY <1>1
  <2> QED BY <1>2, <1>5, <1>8, <2>1
<1>11. Router!TypeOK'
  <2>1. run' \in 0 .. NetRuns
    BY <1>2, <1>3
  <2>2. node' \in 0 .. Router!Sender /\ path' \in Seq(0 .. Router!Receiver)
    BY <1>1, <1>3
  <2>4. Len(path') = 0 /\ PathLen \in Nat
    BY <1>3 DEF Router!DtnAssumption
  <2>3. cost' \in [Router!Inner \cup {Router!Sender} -> NetCosts]
    BY <1>2, <1>3
  <2> QED BY <1>3, <1>10, <2>1, <2>2, <2>3, <2>4 DEF Router!TypeOK
<1> QED BY <1>3, <1>9, <1>11 DEF RouterInv

LEMMA RouterStep ==
  ASSUME Router!DtnAssumption, RouterInv, [Router!Next]_(Router!vars)
  PROVE  RouterInv'
<1>1. CASE UNCHANGED Router!vars
  BY <1>1 DEF Router!vars, RouterInv, Router!TypeOK
<1> QED BY <1>1, FirstStep, ForwardStep, WaitStep, ArriveStep DEF Router!Next

\* The workload of the routes (dtn.c), for any number of nodes, any costs and any
\* array for a path that has a place for each level and the receiver: a route
\* starts in the first level, goes through the levels to the receiver and never
\* back, takes a cheapest node that is up, waits only while there is none, costs
\* what its hops and waits do, and passes the end of the array only if it waited.
THEOREM RoutesRight ==
  ASSUME Router!DtnAssumption
  PROVE  Router!Spec => /\ [](/\ Router!TypeOK /\ Router!StartsInFirstLevel
                              /\ Router!NeverBackwards /\ Router!CostOfPath
                              /\ Router!OverrunsOnlyWaiting)
                        /\ Router!ForwardFirst
<1> DEFINE Greedy ==
      LET ahead == IF Router!Level(node) = Router!Levels - 1 THEN {Router!Receiver}
                   ELSE Router!OfLevel(Router!Level(node) + 1)
      IN  /\ Router!Wait => /\ ahead \cap {n \in DOMAIN up : up[n]} = {}
                            /\ ahead # {Router!Receiver}
          /\ Router!Forward => /\ node' \in ahead /\ up[node']
                               /\ \A n \in ahead : up[n] =>
                                    cost[node][node' - Router!Ahead] <= cost[node][n - Router!Ahead]
<1>1. Router!Init => RouterInv
  BY RouterStarts
<1>2. RouterInv /\ [Router!Next]_(Router!vars) => RouterInv'
  BY RouterStep
<1>3. RouterInv /\ [Router!Next]_(Router!vars) => [Greedy]_(Router!vars)
  BY WaitStep, ForwardStep DEF Ahead, Router!Levels
<1>4. RouterInv => /\ Router!TypeOK /\ Router!StartsInFirstLevel
                   /\ Router!NeverBackwards /\ Router!CostOfPath
                   /\ Router!OverrunsOnlyWaiting
  <2> SUFFICES ASSUME RouterInv
               PROVE  /\ Router!TypeOK /\ Router!StartsInFirstLevel
                      /\ Router!NeverBackwards /\ Router!CostOfPath
                      /\ Router!OverrunsOnlyWaiting
    OBVIOUS
  <2>1. Router!TypeOK /\ phase \in {"first", "route", "overrun"}
    BY DEF RouterInv, Router!TypeOK
  <2>2. Router!StartsInFirstLevel
    BY <2>1 DEF RouterInv, Router!StartsInFirstLevel
  <2>3. CASE phase = "first"
    <3>1. path = <<>> /\ Len(path) = 0 /\ total = 0 /\ 1 .. Len(path) - 1 = {}
      BY <2>3 DEF RouterInv
    <3>2. Router!NeverBackwards
      BY <3>1 DEF Router!NeverBackwards
    <3>3. Router!CostOfPath
      <4> DEFINE f == [i \in 0 .. 0 |-> 0]
      <4>1. f \in [0 .. Len(path) -> Nat] /\ f[0] = 0 /\ total = f[Len(path)] /\ 1 .. Len(path) = {}
        BY <3>1
      <4> HIDE DEF f
      <4>2. SumsTo(path, cost, total)
        BY <4>1 DEF SumsTo, Sums
      <4> QED BY <3>1, <4>2, SumIs
    <3>4. Router!OverrunsOnlyWaiting
      BY <2>3 DEF Router!OverrunsOnlyWaiting
    <3> QED BY <2>1, <2>2, <3>2, <3>3, <3>4
  <2>4. CASE phase # "first"
    <3>1. /\ path # <<>> /\ node = path[Len(path)] /\ Onwards(path)
          /\ SumsTo(path, cost, total)
      BY <2>4 DEF RouterInv
    <3>5. Router!Level(node) \in 0 .. NetNodes
      <4>1. node \in 0 .. Router!Receiver
        BY <2>1, <3>1, LastOf, Zenon DEF Router!TypeOK
      <4>2. node \in 0 .. Router!Receiver - 1 => Router!Level(node) \in 0 .. NetNodes - 1
        BY LevelOfNode
      <4>3. /\ NetNodes \in Nat \ {0} /\ Router!Receiver \in Nat
            /\ Router!Level(Router!Receiver) = NetNodes
        BY Grid
      <4>4. node = Router!Receiver \/ node \in 0 .. Router!Receiver - 1
        BY <4>1, <4>3
      <4> QED BY <4>2, <4>3, <4>4
    <3>6. Router!OverrunsOnlyWaiting
      <4> SUFFICES ASSUME phase = "overrun" PROVE Waited(path)
        BY DEF Router!OverrunsOnlyWaiting, Waited
      <4>1. /\ Len(path) > PathLen /\ PathLen \in Nat /\ PathLen > NetNodes
            /\ Len(path) \in Nat /\ NetNodes \in Nat
        BY <2>1 DEF Router!TypeOK, Router!DtnAssumption
      <4>2. Len(path) <= Router!Level(node) + 1 \/ Waited(path)
        BY <2>4 DEF RouterInv
      <4>3. ~(Len(path) <= Router!Level(node) + 1)
        BY <3>5, <4>1
      <4> QED BY <4>2, <4>3
    <3>2. Router!Level(node) = Router!Levels => node = Router!Receiver
      <4>1. path \in Seq(0 .. Router!Receiver)
        BY <2>1 DEF Router!TypeOK
      <4>2. node \in 0 .. Router!Receiver
        BY <3>1, <4>1, LastOf, Zenon
      <4>3. node \in 0 .. Router!Receiver - 1 => Router!Level(node) \in 0 .. NetNodes - 1
        BY LevelOfNode
      <4> QED BY <4>2, <4>3, Grid DEF Router!Levels
    <3>3. Router!NeverBackwards
      BY <3>1, <3>2 DEF Router!NeverBackwards, Onwards
    <3>4. Router!CostOfPath
      <4>1. Len(path) \in Nat
        BY <2>1 DEF Router!TypeOK
      <4> QED BY <3>1, <4>1, SumIs
    <3> QED BY <2>1, <2>2, <3>3, <3>4, <3>6
  <2> QED BY <2>1, <2>3, <2>4
<1> QED BY <1>1, <1>2, <1>3, <1>4, PTL DEF Router!Spec, Router!ForwardFirst

-----------------------------------------------------------------------------
\* PairQueue.tla: sort, two loops, keeps the pairs together and in order.

\* Until the end of the array is passed: what is left is what the window shows,
\* and pairs begin at even places.
QueueInv ==
  /\ data \in [0 .. last -> Nat]
  /\ first \in 0 .. QueueLen /\ last \in -1 .. QueueLen - 1
  /\ size = last + 1 - first /\ size \in 0 .. QueueLen
  /\ \E m \in Nat : first = 2 * m
  /\ left \in Seq(QueueKeys \X QueueItems) /\ size = 2 * Len(left)
  /\ \A i \in 1 .. Len(left) : /\ data[first + 2 * i - 2] = left[i][1]
                               /\ data[first + 2 * i - 1] = left[i][2]
  /\ Queue!FindsItem

\* After it was: first holds a pair, and the queue had lost one before.
QueuePast ==
  /\ DOMAIN data = 0 .. QueueLen - 1 /\ first \in Nat /\ last = QueueLen + 1
  /\ size \in 0 .. QueueLen /\ size = 2 * Len(left) /\ size < last + 1
  /\ answer = Queue!NoAnswer

\* The loops' indices, and the places that a step of the inner one works on.
StepsOf == [i \in 1 .. (last - first) \div 2 |-> first + 2 * (i - 1)]
PassesOf == [i \in 1 .. size \div 2 |-> i]

LEMMA QueueFacts ==
  ASSUME Queue!QueueAssumption, QueueInv
  PROVE  /\ Len(left) \in Nat /\ first \in Nat /\ last = first + 2 * Len(left) - 1
         /\ DOMAIN StepsOf = 1 .. Len(left) - 1 /\ DOMAIN PassesOf = 1 .. Len(left)
         /\ \A i \in 1 .. Len(left) - 1 :
              /\ StepsOf[i] = first + 2 * i - 2 /\ i \in 1 .. Len(left) /\ i + 1 \in 1 .. Len(left)
         /\ \A i \in 1 .. Len(left) :
              /\ left[i][1] \in Nat /\ left[i][2] \in Nat
              /\ left[i] = <<left[i][1], left[i][2]>>
              /\ first + 2 * i - 2 \in 0 .. last /\ first + 2 * i - 1 \in 0 .. last
<1> DEFINE n == Len(left)
<1>1. /\ n \in Nat /\ first \in Nat /\ last \in Int /\ size = 2 * n /\ size = last + 1 - first
  BY DEF QueueInv, Queue!QueueAssumption
<1>2. left \in [1 .. n -> QueueKeys \X QueueItems] /\ QueueKeys \cup QueueItems \subseteq Nat
  BY DEF QueueInv, Queue!QueueAssumption
<1> HIDE DEF n
<1>3. last = first + 2 * n - 1
  BY <1>1
<1>4. (2 * (n - 1) + 1) \div 2 = n - 1 /\ (2 * n + 0) \div 2 = n
  <2>1. n - 1 \in Int /\ n \in Int /\ 1 \in 0 .. 2 - 1 /\ 0 \in 0 .. 2 - 1 /\ 2 \in Nat \ {0}
    BY <1>1
  <2> QED BY <2>1, Quotient
<1>5. last - first = 2 * (n - 1) + 1 /\ size = 2 * n + 0
  BY <1>1
<1>6. (last - first) \div 2 = n - 1 /\ size \div 2 = n
  BY <1>4, <1>5
<1>7. DOMAIN StepsOf = 1 .. n - 1 /\ DOMAIN PassesOf = 1 .. n
  BY <1>6 DEF StepsOf, PassesOf
<1>8. ASSUME NEW i \in 1 .. n - 1
      PROVE  StepsOf[i] = first + 2 * i - 2 /\ i \in 1 .. n /\ i + 1 \in 1 .. n
  <2>1. StepsOf[i] = first + 2 * (i - 1)
    BY <1>6 DEF StepsOf
  <2> QED BY <1>1, <2>1
<1>9. ASSUME NEW i \in 1 .. n
      PROVE  /\ left[i][1] \in Nat /\ left[i][2] \in Nat
             /\ left[i] = <<left[i][1], left[i][2]>>
             /\ first + 2 * i - 2 \in 0 .. last /\ first + 2 * i - 1 \in 0 .. last
  <2>1. left[i] \in QueueKeys \X QueueItems
    BY <1>2
  <2>2. left[i][1] \in Nat /\ left[i][2] \in Nat /\ left[i] = <<left[i][1], left[i][2]>>
    BY <1>2, <2>1
  <2>3. first + 2 * i - 2 \in 0 .. last /\ first + 2 * i - 1 \in 0 .. last
    BY <1>1, <1>3
  <2> QED BY <2>2, <2>3
<1> QED BY <1>1, <1>3, <1>7, <1>8, <1>9 DEF n

-----------------------------------------------------------------------------
\* What is in the array is a rearrangement of what was, p, in which pairs of
\* the same key keep their order and the last m are where they belong.
Key(p, i) == left[p[i]][1]
Shows(d, p) ==
  /\ p \in [1 .. Len(left) -> 1 .. Len(left)]
  /\ d \in [0 .. last -> Nat]
  /\ \A i \in 1 .. Len(left) : /\ d[first + 2 * i - 2] = left[p[i]][1]
                               /\ d[first + 2 * i - 1] = left[p[i]][2]
Stable(p) ==
  \A i, j \in 1 .. Len(left) : i < j /\ Key(p, i) = Key(p, j) => p[i] < p[j]
Settled(p, m) ==
  \A i, j \in 1 .. Len(left) : i < j /\ j > Len(left) - m => Key(p, i) <= Key(p, j)
Highest(p, k) == \A i \in 1 .. k : Key(p, i) <= Key(p, k)

Exchanged(p, i) == [p EXCEPT ![i] = p[i + 1], ![i + 1] = p[i]]
Up(x, y) == IF x <= y THEN x ELSE y

\* A step of the inner loop.
LEMMA ExchangeStep ==
  ASSUME Len(left) \in Nat, NEW m \in 0 .. Len(left) - 1, NEW i \in 1 .. Len(left) - 1,
         NEW p \in [1 .. Len(left) -> 1 .. Len(left)],
         \A x \in 1 .. Len(left) : left[x][1] \in Nat,
         Stable(p), Settled(p, m), Highest(p, Up(i, Len(left) - m)),
         Key(p, i + 1) < Key(p, i)
  PROVE  /\ Exchanged(p, i) \in [1 .. Len(left) -> 1 .. Len(left)]
         /\ Stable(Exchanged(p, i)) /\ Settled(Exchanged(p, i), m)
         /\ Highest(Exchanged(p, i), Up(i + 1, Len(left) - m))
<1> DEFINE n == Len(left)  q == Exchanged(p, i)
<1> DEFINE key == [x \in 1 .. n |-> Key(p, x)]  moved == [x \in 1 .. n |-> Key(q, x)]
<1>1. n \in Nat /\ i \in 1 .. n /\ i + 1 \in 1 .. n /\ m \in 0 .. n - 1 /\ i \in Nat
  OBVIOUS
<1>2. \A x \in 1 .. n : key[x] = Key(p, x) /\ key[x] \in Nat /\ moved[x] = Key(q, x)
  BY DEF Key
<1>3. /\ q \in [1 .. n -> 1 .. n]
      /\ q[i] = p[i + 1] /\ q[i + 1] = p[i]
      /\ \A x \in 1 .. n : x # i /\ x # i + 1 => q[x] = p[x]
  <2>1. i # i + 1
    BY <1>1
  <2> QED BY <1>1, <2>1 DEF Exchanged
<1>4. /\ moved[i] = key[i + 1] /\ moved[i + 1] = key[i]
      /\ \A x \in 1 .. n : x # i /\ x # i + 1 => moved[x] = key[x]
  BY <1>1, <1>2, <1>3 DEF Key
<1>5. key[i + 1] < key[i]
  BY <1>1, <1>2
<1>6. /\ \A x, y \in 1 .. n : x < y /\ key[x] = key[y] => p[x] < p[y]
      /\ \A x, y \in 1 .. n : x < y /\ y > n - m => key[x] <= key[y]
  BY <1>2 DEF Stable, Settled
<1>7. \A x \in 1 .. Up(i, n - m) : key[x] <= key[Up(i, n - m)]
  <2>1. Up(i, n - m) \in 1 .. n /\ \A x \in 1 .. Up(i, n - m) : x \in 1 .. n
    BY <1>1 DEF Up
  <2> QED BY <1>2, <2>1 DEF Highest
<1> HIDE DEF n, q, key, moved
\* Both places are before the settled ones.
<1>8. i + 1 <= n - m
  BY <1>1, <1>2, <1>5, <1>6
<1>9. Up(i, n - m) = i /\ Up(i + 1, n - m) = i + 1
  BY <1>1, <1>8 DEF Up
<1>10. \A x, y \in 1 .. n : x < y /\ moved[x] = moved[y] => q[x] < q[y]
  <2> SUFFICES ASSUME NEW x \in 1 .. n, NEW y \in 1 .. n, x < y, moved[x] = moved[y]
               PROVE  q[x] < q[y]
    OBVIOUS
  <2>1. CASE x # i /\ x # i + 1 /\ y # i /\ y # i + 1
    BY <1>3, <1>4, <1>6, <2>1
  <2>2. CASE x = i
    <3>1. y # i + 1 /\ y # i
      BY <1>1, <1>2, <1>4, <1>5, <2>2
    <3>2. i + 1 < y
      BY <1>1, <2>2, <3>1
    <3> QED BY <1>1, <1>3, <1>4, <1>6, <2>2, <3>1, <3>2
  <2>3. CASE x = i + 1
    <3>1. y # i + 1 /\ y # i /\ i < y
      BY <1>1, <2>3
    <3> QED BY <1>1, <1>3, <1>4, <1>6, <2>3, <3>1
  <2>4. CASE y = i /\ x # i /\ x # i + 1
    <3>1. x < i + 1
      BY <1>1, <2>4
    <3> QED BY <1>1, <1>3, <1>4, <1>6, <2>4, <3>1
  <2>5. CASE y = i + 1 /\ x # i /\ x # i + 1
    <3>1. x < i
      BY <1>1, <2>5
    <3> QED BY <1>1, <1>3, <1>4, <1>6, <2>5, <3>1
  <2> QED BY <1>1, <2>1, <2>2, <2>3, <2>4, <2>5
<1>11. \A x, y \in 1 .. n : x < y /\ y > n - m => moved[x] <= moved[y]
  <2> SUFFICES ASSUME NEW x \in 1 .. n, NEW y \in 1 .. n, x < y, y > n - m
               PROVE  moved[x] <= moved[y]
    OBVIOUS
  <2>1. y # i /\ y # i + 1 /\ i < y /\ i + 1 < y
    BY <1>1, <1>8
  <2>2. moved[y] = key[y]
    BY <1>4, <2>1
  <2>3. \E z \in 1 .. n : z < y /\ moved[x] = key[z]
    BY <1>1, <1>4, <2>1
  <2> QED BY <1>6, <2>2, <2>3
<1>12. \A x \in 1 .. i + 1 : moved[x] <= moved[i + 1]
  <2> SUFFICES ASSUME NEW x \in 1 .. i + 1 PROVE moved[x] <= moved[i + 1]
    OBVIOUS
  <2>1. CASE x = i + 1
    BY <1>1, <1>2, <1>4, <2>1
  <2>2. CASE x = i
    BY <1>1, <1>2, <1>4, <1>5, <2>2
  <2>3. CASE x # i /\ x # i + 1
    <3>1. x \in 1 .. i /\ x \in 1 .. n
      BY <1>1, <2>3
    <3> QED BY <1>1, <1>4, <1>7, <1>9, <2>3, <3>1
  <2> QED BY <2>1, <2>2, <2>3
<1>13. Stable(q) /\ Settled(q, m)
  BY <1>2, <1>10, <1>11 DEF Stable, Settled, n
<1>14. Highest(q, Up(i + 1, n - m))
  <2>1. \A x \in 1 .. i + 1 : x \in 1 .. n
    BY <1>1
  <2> QED BY <1>1, <1>2, <1>9, <1>12, <2>1 DEF Highest
<1> QED BY <1>3, <1>13, <1>14 DEF n, q

\* What the exchange does to the array, of whose keys the loop sees the order.
LEMMA SwappedShows ==
  ASSUME Queue!QueueAssumption, QueueInv, NEW d, NEW p, Shows(d, p),
         NEW i \in 1 .. Len(left) - 1
  PROVE  /\ (d[StepsOf[i] + 2] < d[StepsOf[i]]) <=> (Key(p, i + 1) < Key(p, i))
         /\ Queue!Swapped(d, StepsOf[i]) \in [0 .. last -> Nat]
         /\ Exchanged(p, i) \in [1 .. Len(left) -> 1 .. Len(left)]
              => Shows(Queue!Swapped(d, StepsOf[i]), Exchanged(p, i))
<1> DEFINE n == Len(left)  j == StepsOf[i]  e == Queue!Swapped(d, j)  q == Exchanged(p, i)
           at(x) == first + 2 * x - 2
<1>1. /\ n \in Nat /\ first \in Nat /\ last = first + 2 * n - 1
      /\ j = first + 2 * i - 2 /\ i \in 1 .. n /\ i + 1 \in 1 .. n /\ i \in Nat
  BY QueueFacts
<1>2. /\ p \in [1 .. n -> 1 .. n] /\ d \in [0 .. last -> Nat]
      /\ \A x \in 1 .. n : /\ d[first + 2 * x - 2] = left[p[x]][1]
                           /\ d[first + 2 * x - 1] = left[p[x]][2]
  BY DEF Shows
<1>3. e = [d EXCEPT ![j] = d[j + 2], ![j + 1] = d[j + 3], ![j + 2] = d[j], ![j + 3] = d[j + 1]]
  BY DEF Queue!Swapped
<1>4. q = [p EXCEPT ![i] = p[i + 1], ![i + 1] = p[i]]
  BY DEF Exchanged
<1>5. /\ j = first + 2 * i - 2 /\ j + 1 = first + 2 * i - 1
      /\ j + 2 = first + 2 * (i + 1) - 2 /\ j + 3 = first + 2 * (i + 1) - 1
      /\ j \in 0 .. last /\ j + 1 \in 0 .. last /\ j + 2 \in 0 .. last /\ j + 3 \in 0 .. last
  BY <1>1
<1>6. /\ d[j] = left[p[i]][1] /\ d[j + 1] = left[p[i]][2]
      /\ d[j + 2] = left[p[i + 1]][1] /\ d[j + 3] = left[p[i + 1]][2]
  BY <1>1, <1>2, <1>5
<1> HIDE DEF e, q, j, n
<1>7. e \in [0 .. last -> Nat]
  BY <1>2, <1>3, <1>5
<1>8. /\ e[j] = d[j + 2] /\ e[j + 1] = d[j + 3] /\ e[j + 2] = d[j] /\ e[j + 3] = d[j + 1]
      /\ \A x \in 0 .. last : x # j /\ x # j + 1 /\ x # j + 2 /\ x # j + 3 => e[x] = d[x]
  <2> DEFINE k == j + 1  l == j + 2  m == j + 3
  <2>1. j # k /\ j # l /\ j # m /\ k # l /\ k # m /\ l # m
    BY <1>1, <1>5
  <2>2. /\ e = [d EXCEPT ![j] = d[l], ![k] = d[m], ![l] = d[j], ![m] = d[k]]
        /\ j \in 0 .. last /\ k \in 0 .. last /\ l \in 0 .. last /\ m \in 0 .. last
    BY <1>3, <1>5
  <2> HIDE DEF k, l, m
  <2> DEFINE all == 0 .. last
  <2>3. /\ e = [d EXCEPT ![j] = d[l], ![k] = d[m], ![l] = d[j], ![m] = d[k]]
        /\ j \in all /\ k \in all /\ l \in all /\ m \in all /\ d \in [all -> Nat]
    BY <1>2, <2>2
  <2> HIDE DEF all
  <2>4. e[j] = d[l] /\ e[k] = d[m] /\ e[l] = d[j] /\ e[m] = d[k]
    BY <2>1, <2>3
  <2>5. \A x \in all : x # j /\ x # k /\ x # l /\ x # m => e[x] = d[x]
    BY <2>1, <2>3
  <2> QED BY <2>4, <2>5 DEF k, l, m, all
<1>9. ASSUME NEW x \in 1 .. n
      PROVE  /\ e[first + 2 * x - 2] = left[q[x]][1]
             /\ e[first + 2 * x - 1] = left[q[x]][2]
  <2>1. /\ q[i] = p[i + 1] /\ q[i + 1] = p[i] /\ (x # i /\ x # i + 1 => q[x] = p[x])
    <3>1. i # i + 1
      BY <1>1
    <3> QED BY <1>1, <1>2, <1>4, <3>1
  <2>2. CASE x = i
    BY <1>5, <1>6, <1>8, <2>1, <2>2
  <2>3. CASE x = i + 1
    BY <1>5, <1>6, <1>8, <2>1, <2>3
  <2>4. CASE x # i /\ x # i + 1
    <3> DEFINE a == first + 2 * x - 2  o == first + 2 * x - 1
    <3>1. /\ a # j /\ a # j + 1 /\ a # j + 2 /\ a # j + 3 /\ a \in 0 .. last
          /\ o # j /\ o # j + 1 /\ o # j + 2 /\ o # j + 3 /\ o \in 0 .. last
      BY <1>1, <1>5, <2>4
    <3> HIDE DEF a, o
    <3>2. e[a] = d[a] /\ e[o] = d[o]
      BY <1>8, <3>1
    <3> QED BY <1>2, <2>1, <2>4, <3>2 DEF a, o
  <2> QED BY <2>2, <2>3, <2>4
<1>10. (d[j + 2] < d[j]) <=> (Key(p, i + 1) < Key(p, i))
  BY <1>6 DEF Key
<1>11. q \in [1 .. n -> 1 .. n] => Shows(e, q)
  BY <1>7, <1>9 DEF Shows, n
<1> QED BY <1>7, <1>10, <1>11 DEF e, q, j, n

\* The inner loop, as the fold it is.
PassRound(d, g, s) ==
  IF s = {} THEN d
  ELSE IF g[s \ {Largest(s)}][StepsOf[Largest(s)] + 2] < g[s \ {Largest(s)}][StepsOf[Largest(s)]]
       THEN Queue!Swapped(g[s \ {Largest(s)}], StepsOf[Largest(s)])
       ELSE g[s \ {Largest(s)}]
PassFold(d, g) == g = [s \in SUBSET (DOMAIN StepsOf) |-> PassRound(d, g, s)]

LEMMA PassIsFold ==
  ASSUME NEW d
  PROVE  Queue!OnePass(d) = (CHOOSE g : PassFold(d, g))[DOMAIN StepsOf]
  BY Zenon DEF Queue!OnePass, Queue!Steps, Queue!FoldLeft, Queue!MapThenFoldSet, Queue!Max,
               Largest, StepsOf, PassRound, PassFold

LEMMA PassFoldExists ==
  ASSUME Queue!QueueAssumption, QueueInv, NEW d \in [0 .. last -> Nat]
  PROVE  \E g : PassFold(d, g)
<1> DEFINE V == [0 .. last -> Nat]
           c == Len(left) - 1
           top == IF c < 0 THEN 0 ELSE c
           step == [i \in 1 .. top |->
                      [e \in V |-> IF e[StepsOf[i] + 2] < e[StepsOf[i]]
                                   THEN Queue!Swapped(e, StepsOf[i]) ELSE e]]
<1>1. top \in Nat /\ 1 .. top = 1 .. c /\ DOMAIN StepsOf = 1 .. top
  <2>1. Len(left) \in Nat /\ DOMAIN StepsOf = 1 .. c
    BY QueueFacts
  <2> QED BY <2>1
<1>2. ASSUME NEW i \in 1 .. top, NEW e \in V
      PROVE  Queue!Swapped(e, StepsOf[i]) \in V
  <2>1. /\ Len(left) \in Nat /\ first \in Nat /\ last = first + 2 * Len(left) - 1
        /\ StepsOf[i] = first + 2 * i - 2 /\ i \in 1 .. Len(left) - 1
    BY <1>1, QueueFacts
  <2> DEFINE j == StepsOf[i]
  <2>2. j \in 0 .. last /\ j + 1 \in 0 .. last /\ j + 2 \in 0 .. last /\ j + 3 \in 0 .. last
    BY <2>1
  <2> HIDE DEF j
  <2>3. Queue!Swapped(e, j) \in V
    BY <2>2 DEF Queue!Swapped
  <2> QED BY <2>3 DEF j
<1>3. step \in [1 .. top -> [V -> V]]
  <2> HIDE DEF V, top
  <2> QED BY <1>2
<1>4. PICK g \in [SUBSET (1 .. top) -> V] : Folds(top, d, step, g)
  <2> HIDE DEF step, top
  <2> QED BY <1>1, <1>3, FoldsExist
<1>5. ASSUME NEW s \in SUBSET (1 .. top)
      PROVE  g[s] = PassRound(d, g, s)
  <2>1. g[s] = IF s = {} THEN d ELSE step[Largest(s)][g[s \ {Largest(s)}]]
    BY <1>4 DEF Folds
  <2>2. CASE s # {}
    <3>1. Largest(s) \in 1 .. top /\ g[s \ {Largest(s)}] \in V
      <4>1. Largest(s) \in s
        BY <1>1, <2>2, LargestIn
      <4> QED BY <1>4, <4>1
    <3> HIDE DEF V, top
    <3> QED BY <2>1, <2>2, <3>1 DEF PassRound
  <2> QED BY <2>1, <2>2 DEF PassRound
<1>6. g = [s \in SUBSET (1 .. top) |-> PassRound(d, g, s)]
  <2> HIDE DEF V, top
  <2> QED BY <1>4, <1>5
<1>7. PassFold(d, g)
  BY <1>1, <1>6, Zenon DEF PassFold
<1> QED BY <1>7

\* A pass settles one more pair.
LEMMA PassSettles ==
  ASSUME Queue!QueueAssumption, QueueInv, NEW m \in 0 .. Len(left) - 1, NEW d, NEW p0,
         Shows(d, p0), Stable(p0), Settled(p0, m)
  PROVE  \E p : /\ Shows(Queue!OnePass(d), p) /\ Stable(p) /\ Settled(p, m + 1)
<1> DEFINE n == Len(left)
           Done(e, k) == \E p : /\ Shows(e, p) /\ Stable(p) /\ Settled(p, m)
                                /\ Highest(p, Up(k + 1, n - m))
           g == CHOOSE h : PassFold(d, h)
           K == {k \in Nat : k <= n - 1 => Done(g[1 .. k], k)}
<1>1. /\ n \in Nat \ {0} /\ m \in 0 .. n - 1 /\ DOMAIN StepsOf = 1 .. n - 1
      /\ \A x \in 1 .. n : left[x][1] \in Nat
  <2>1. /\ n \in Nat /\ m \in 0 .. n - 1 /\ DOMAIN StepsOf = 1 .. n - 1
        /\ \A x \in 1 .. n : left[x][1] \in Nat
    BY QueueFacts
  <2> HIDE DEF n
  <2>2. n # 0
    BY <2>1
  <2> QED BY <2>1, <2>2
<1>2. PassFold(d, g)
  <2>1. d \in [0 .. last -> Nat]
    BY DEF Shows
  <2> QED BY <2>1, PassFoldExists
<1> HIDE DEF g, n
<1>3. ASSUME NEW s \in SUBSET (1 .. n - 1)
      PROVE  g[s] = PassRound(d, g, s)
  BY <1>1, <1>2, Zenon DEF PassFold
<1>4. 0 \in K
  <2>1. 1 .. 0 = {} /\ 1 .. 0 \in SUBSET (1 .. n - 1)
    OBVIOUS
  <2>2. g[1 .. 0] = d
    BY <1>3, <2>1, Zenon DEF PassRound
  <2>3. Up(0 + 1, n - m) = 1
    BY <1>1 DEF Up
  <2>4. Highest(p0, 1)
    <3>1. p0[1] \in 1 .. n
      BY <1>1 DEF Shows, n
    <3>2. Key(p0, 1) \in Nat
      BY <1>1, <3>1 DEF Key
    <3> QED BY <3>2 DEF Highest
  <2> QED BY <2>2, <2>3, <2>4
<1>5. ASSUME NEW k \in K PROVE k + 1 \in K
  <2>1. SUFFICES ASSUME k + 1 <= n - 1 PROVE Done(g[1 .. k + 1], k + 1)
    OBVIOUS
  <2>2. k \in Nat /\ Done(g[1 .. k], k)
    BY <1>1, <2>1
  <2>3. PICK p : /\ Shows(g[1 .. k], p) /\ Stable(p) /\ Settled(p, m)
                 /\ Highest(p, Up(k + 1, n - m))
    BY <2>2
  <2>4. /\ k + 1 \in 1 .. n - 1 /\ k + 1 \in Nat \ {0} /\ k + 1 \in 1 .. k + 1
    BY <1>1, <2>1, <2>2
  <2>5. 1 .. k + 1 \in SUBSET (1 .. n - 1) /\ 1 .. k + 1 # {}
    <3>1. \A i \in 1 .. k + 1 : i \in 1 .. n - 1
      BY <1>1, <2>1, <2>2
    <3> QED BY <2>4, <3>1
  <2>6. (1 .. k + 1) \ {k + 1} = 1 .. k
    BY <2>2
  <2>7. Largest(1 .. k + 1) = k + 1
    BY <2>4, LargestOfUpto
  <2> DEFINE e == g[1 .. k]  i == k + 1  j == StepsOf[i]
  <2>8. g[1 .. k + 1] = IF e[j + 2] < e[j] THEN Queue!Swapped(e, j) ELSE e
    BY <1>3, <2>5, <2>6, <2>7, Zenon DEF PassRound
  <2>9. Shows(e, p)
    BY <2>3
  <2>10. i \in 1 .. n - 1
    BY <2>4
  <2> HIDE DEF e
  <2>11. /\ (e[j + 2] < e[j]) <=> (Key(p, i + 1) < Key(p, i))
         /\ Exchanged(p, i) \in [1 .. n -> 1 .. n]
              => Shows(Queue!Swapped(e, j), Exchanged(p, i))
    BY <2>9, <2>10, SwappedShows DEF n
  <2> HIDE DEF j
  <2>12. p \in [1 .. n -> 1 .. n]
    BY <2>9 DEF Shows, n
  <2>13. CASE Key(p, i + 1) < Key(p, i)
    <3>1. /\ Exchanged(p, i) \in [1 .. n -> 1 .. n]
          /\ Stable(Exchanged(p, i)) /\ Settled(Exchanged(p, i), m)
          /\ Highest(Exchanged(p, i), Up(i + 1, n - m))
      BY <1>1, <2>3, <2>10, <2>12, <2>13, ExchangeStep DEF n
    <3>2. g[1 .. k + 1] = Queue!Swapped(e, j)
      BY <2>8, <2>11, <2>13
    <3> QED BY <2>11, <3>1, <3>2
  <2>14. CASE ~ (Key(p, i + 1) < Key(p, i))
    <3>1. g[1 .. k + 1] = e
      BY <2>8, <2>11, <2>14
    <3>2. Highest(p, Up(i + 1, n - m))
      <4>1. \A x \in 1 .. n : Key(p, x) \in Nat
        BY <1>1, <2>12 DEF Key
      <4>2. i \in 1 .. n /\ i + 1 \in 1 .. n
        BY <1>1, <2>10
      <4>3. Key(p, i) <= Key(p, i + 1)
        BY <2>14, <4>1, <4>2
      <4>4. CASE i + 1 <= n - m
        <5>1. Up(i, n - m) = i /\ Up(i + 1, n - m) = i + 1
          BY <1>1, <4>2, <4>4 DEF Up
        <5>2. \A x \in 1 .. i : Key(p, x) <= Key(p, i) /\ x \in 1 .. n
          <6>1. Highest(p, i)
            BY <2>3, <5>1
          <6>2. \A x \in 1 .. i : x \in 1 .. n
            BY <1>1, <4>2
          <6> QED BY <6>1, <6>2 DEF Highest
        <5>3. \A x \in 1 .. i + 1 : Key(p, x) <= Key(p, i + 1)
          <6> TAKE x \in 1 .. i + 1
          <6>1. CASE x = i + 1
            BY <4>1, <4>2, <6>1
          <6>2. CASE x # i + 1
            <7>1. x \in 1 .. i
              BY <2>4, <6>2
            <7> QED BY <4>1, <4>2, <4>3, <5>2, <7>1
          <6> QED BY <6>1, <6>2
        <5> QED BY <5>1, <5>3 DEF Highest
      <4>5. CASE ~ (i + 1 <= n - m)
        <5>1. Up(i, n - m) = n - m /\ Up(i + 1, n - m) = n - m
          BY <1>1, <4>2, <4>5 DEF Up
        <5> QED BY <2>3, <5>1
      <4> QED BY <4>4, <4>5
    <3> QED BY <2>3, <2>9, <3>1, <3>2
  <2> QED BY <2>13, <2>14
<1>6. K = Nat
  <2>1. K \in SUBSET Nat
    OBVIOUS
  <2> HIDE DEF K
  <2> QED BY <1>4, <1>5, <2>1, EveryNumber
<1>7. Done(g[1 .. n - 1], n - 1)
  <2>1. n - 1 \in Nat /\ n - 1 <= n - 1
    BY <1>1
  <2> HIDE DEF Done
  <2> QED BY <1>6, <2>1
<1>8. PICK p : /\ Shows(g[1 .. n - 1], p) /\ Stable(p) /\ Settled(p, m)
               /\ Highest(p, Up((n - 1) + 1, n - m))
  BY <1>7
<1>9. Settled(p, m + 1)
  <2>1. Up((n - 1) + 1, n - m) = n - m
    BY <1>1 DEF Up
  <2> SUFFICES ASSUME NEW x \in 1 .. n, NEW y \in 1 .. n, x < y, y > n - (m + 1)
               PROVE  Key(p, x) <= Key(p, y)
    BY DEF Settled, n
  <2>2. CASE y > n - m
    BY <1>8, <2>2 DEF Settled, n
  <2>3. CASE ~ (y > n - m)
    <3>1. y = n - m /\ x \in 1 .. y
      BY <1>1, <2>3
    <3> QED BY <1>8, <2>1, <3>1 DEF Highest
  <2> QED BY <2>2, <2>3
<1>10. Queue!OnePass(d) = g[1 .. n - 1]
  BY <1>1, PassIsFold, Zenon DEF g
<1> QED BY <1>8, <1>9, <1>10

\* There is one order by key in which pairs of the same key keep theirs.
Ordered(p) ==
  \A i, j \in 1 .. Len(left) : i < j =>
    \/ left[p[i]][1] < left[p[j]][1]
    \/ left[p[i]][1] = left[p[j]][1] /\ p[i] < p[j]

LEMMA OrderedOnto ==
  ASSUME Queue!QueueAssumption, QueueInv,
         NEW f \in [1 .. Len(left) -> 1 .. Len(left)], Ordered(f)
  PROVE  /\ \A i, j \in 1 .. Len(left) : f[i] = f[j] => i = j
         /\ \A x \in 1 .. Len(left) : \E i \in 1 .. Len(left) : f[i] = x
<1> DEFINE n == Len(left)
<1>1. n \in Nat /\ \A i \in 1 .. n : left[i][1] \in Nat
  BY QueueFacts
<1>2. f \in [1 .. n -> 1 .. n]
  OBVIOUS
<1>3. ASSUME NEW i \in 1 .. n, NEW j \in 1 .. n, i < j PROVE f[i] # f[j]
  <2> DEFINE x == f[i]  y == f[j]
  <2>1. left[x][1] < left[y][1] \/ (left[x][1] = left[y][1] /\ x < y)
    BY <1>3 DEF Ordered
  <2>2. left[x][1] \in Nat /\ left[y][1] \in Nat /\ x \in Nat /\ y \in Nat
    BY <1>1, <1>2
  <2> HIDE DEF x, y
  <2>3. x # y
    BY <2>1, <2>2
  <2> QED BY <2>3 DEF x, y
<1> HIDE DEF n
<1>4. \A i, j \in 1 .. n : f[i] = f[j] => i = j
  <2> SUFFICES ASSUME NEW i \in 1 .. n, NEW j \in 1 .. n, f[i] = f[j], i # j PROVE FALSE
    OBVIOUS
  <2>1. i < j \/ j < i
    BY <1>1
  <2> QED BY <1>3, <2>1
<1>5. f \in Injection(1 .. n, 1 .. n)
  BY <1>2, <1>4 DEF Injection, IsInjective
<1>6. IsFiniteSet(1 .. n)
  BY <1>1, FS_Interval
<1>7. f \in Surjection(1 .. n, 1 .. n)
  BY <1>5, <1>6, FS_Injection
<1>8. \A x \in 1 .. n : \E i \in 1 .. n : f[i] = x
  BY <1>7 DEF Surjection
<1> QED BY <1>4, <1>8 DEF n

\* At the first place where they differ, one has what the other has later.
LEMMA OrderedLess ==
  ASSUME Queue!QueueAssumption, QueueInv,
         NEW p \in [1 .. Len(left) -> 1 .. Len(left)], Ordered(p),
         NEW q \in [1 .. Len(left) -> 1 .. Len(left)], Ordered(q),
         NEW i \in 1 .. Len(left), p[i] # q[i],
         \A j \in 1 .. Len(left) : j < i => p[j] = q[j]
  PROVE  \/ left[q[i]][1] < left[p[i]][1]
         \/ left[q[i]][1] = left[p[i]][1] /\ q[i] < p[i]
<1> DEFINE n == Len(left)
<1>1. n \in Nat
  BY QueueFacts
<1>2. PICK j \in 1 .. n : q[j] = p[i]
  <2>1. p[i] \in 1 .. n
    OBVIOUS
  <2> QED BY <2>1, OrderedOnto
<1>3. \A x, y \in 1 .. n : p[x] = p[y] => x = y
  BY OrderedOnto
<1>4. i < j
  <2>1. j # i
    BY <1>2
  <2>2. ~ (j < i)
    <3>1. SUFFICES ASSUME j < i PROVE FALSE
      OBVIOUS
    <3>2. p[j] = p[i]
      BY <1>2, <3>1
    <3> HIDE DEF n
    <3> QED BY <1>1, <1>3, <2>1, <3>2 DEF n
  <2> QED BY <1>1, <2>1, <2>2
<1> QED BY <1>2, <1>4 DEF Ordered

LEMMA OneOrder ==
  ASSUME Queue!QueueAssumption, QueueInv,
         NEW p \in [1 .. Len(left) -> 1 .. Len(left)], Ordered(p),
         NEW q \in [1 .. Len(left) -> 1 .. Len(left)], Ordered(q)
  PROVE  p = q
<1> DEFINE n == Len(left)
           Differ == {i \in 1 .. n : p[i] # q[i]}
<1>1. n \in Nat /\ \A i \in 1 .. n : left[i][1] \in Nat
  BY QueueFacts
<1>2. p \in [1 .. n -> 1 .. n] /\ q \in [1 .. n -> 1 .. n]
  OBVIOUS
<1>3. ASSUME Differ # {} PROVE FALSE
  <2>1. Differ \in SUBSET Nat
    BY <1>1
  <2>2. PICK i \in Differ : \A j \in Differ : i <= j
    <3> HIDE DEF Differ
    <3> QED BY <1>3, <2>1, SmallestOf
  <2>3. i \in 1 .. n /\ p[i] # q[i] /\ \A j \in 1 .. n : j < i => p[j] = q[j]
    BY <1>1, <2>2
  <2> DEFINE x == p[i]  y == q[i]
  <2>4. left[y][1] < left[x][1] \/ (left[y][1] = left[x][1] /\ y < x)
    BY <2>3, OrderedLess
  <2>5. left[x][1] < left[y][1] \/ (left[x][1] = left[y][1] /\ x < y)
    BY <2>3, OrderedLess
  <2>6. x \in Nat /\ y \in Nat /\ left[x][1] \in Nat /\ left[y][1] \in Nat
    BY <1>1, <1>2, <2>3
  <2> HIDE DEF x, y
  <2> QED BY <2>4, <2>5, <2>6
<1>4. \A i \in 1 .. n : p[i] = q[i]
  BY <1>3
<1> HIDE DEF n, Differ
<1>5. p = [i \in 1 .. n |-> p[i]] /\ q = [i \in 1 .. n |-> q[i]]
  BY <1>2
<1>6. [i \in 1 .. n |-> p[i]] = [i \in 1 .. n |-> q[i]]
  BY <1>4
<1> QED BY <1>5, <1>6, Zenon

\* The outer loop, as the fold it is.
SortRound(g, s) == IF s = {} THEN data ELSE Queue!OnePass(g[s \ {Largest(s)}])
SortFold(g) == g = [s \in SUBSET (DOMAIN PassesOf) |-> SortRound(g, s)]

LEMMA SortIsFold ==
  ASSUME Queue!Sort
  PROVE  /\ data' = (CHOOSE g : SortFold(g))[DOMAIN PassesOf]
         /\ left' = Queue!Sorted(left) /\ answer' = Queue!NoAnswer
         /\ UNCHANGED <<first, last, size, pairs>>
<1>1. data' = (CHOOSE g : SortFold(g))[DOMAIN PassesOf]
  BY Zenon DEF Queue!Sort, Queue!Passes, Queue!FoldLeft, Queue!MapThenFoldSet, Queue!Max,
               Largest, PassesOf, SortRound, SortFold
<1>2. /\ left' = Queue!Sorted(left) /\ answer' = Queue!NoAnswer
      /\ UNCHANGED <<first, last, size, pairs>>
  BY DEF Queue!Sort
<1> QED BY <1>1, <1>2

\* After all passes the array has the pairs in that order.
LEMMA SortSettles ==
  ASSUME Queue!QueueAssumption, QueueInv
  PROVE  \E p : Shows((CHOOSE g : SortFold(g))[DOMAIN PassesOf], p) /\ Ordered(p)
<1> DEFINE n == Len(left)
           V == {d \in [0 .. last -> Nat] : \E p : Shows(d, p) /\ Stable(p)}
           step == [i \in 1 .. n |-> [d \in V |-> Queue!OnePass(d)]]
           g == CHOOSE h : SortFold(h)
           Done(d, m) == \E p : Shows(d, p) /\ Stable(p) /\ Settled(p, m)
           M == {m \in Nat : m <= n => Done(g[1 .. m], m)}
<1>1. n \in Nat /\ DOMAIN PassesOf = 1 .. n /\ \A i \in 1 .. n : left[i][1] \in Nat
  BY QueueFacts
<1>2. \A p : Settled(p, 0)
  BY <1>1 DEF Settled
<1>3. Shows(data, [i \in 1 .. n |-> i]) /\ Stable([i \in 1 .. n |-> i])
  <2>1. Shows(data, [i \in 1 .. n |-> i])
    BY DEF Shows, QueueInv
  <2>2. Stable([i \in 1 .. n |-> i])
    BY DEF Stable
  <2> QED BY <2>1, <2>2
<1>4. data \in V
  BY <1>3 DEF Shows
<1>5. ASSUME NEW d \in V, n # 0 PROVE Queue!OnePass(d) \in V
  <2>1. PICK p0 : Shows(d, p0) /\ Stable(p0)
    OBVIOUS
  <2>2. 0 \in 0 .. n - 1 /\ Settled(p0, 0)
    BY <1>1, <1>2, <1>5
  <2> HIDE DEF V
  <2>3. PICK p : Shows(Queue!OnePass(d), p) /\ Stable(p)
    BY <2>1, <2>2, PassSettles
  <2>4. Queue!OnePass(d) \in [0 .. last -> Nat]
    BY <2>3 DEF Shows
  <2> QED BY <2>3, <2>4 DEF V
<1>6. step \in [1 .. n -> [V -> V]]
  <2> HIDE DEF V, n
  <2>1. \A i \in 1 .. n : n # 0
    BY <1>1
  <2> QED BY <1>5, <2>1
<1>7. SortFold(g)
  <2>1. PICK h \in [SUBSET (1 .. n) -> V] : Folds(n, data, step, h)
    <3> HIDE DEF n, V, step
    <3> QED BY <1>1, <1>4, <1>6, FoldsExist
  <2>2. ASSUME NEW s \in SUBSET (1 .. n)
        PROVE  h[s] = SortRound(h, s)
    <3>1. h[s] = IF s = {} THEN data ELSE step[Largest(s)][h[s \ {Largest(s)}]]
      BY <2>1 DEF Folds
    <3>2. CASE s # {}
      <4>1. Largest(s) \in 1 .. n /\ h[s \ {Largest(s)}] \in V
        <5>1. Largest(s) \in s
          BY <1>1, <3>2, LargestIn
        <5> HIDE DEF V
        <5> QED BY <2>1, <5>1
      <4> HIDE DEF V, n
      <4> QED BY <3>1, <3>2, <4>1 DEF SortRound
    <3> QED BY <3>1, <3>2 DEF SortRound
  <2>3. h = [s \in SUBSET (1 .. n) |-> SortRound(h, s)]
    <3> HIDE DEF V, n
    <3> QED BY <2>1, <2>2
  <2>4. SortFold(h)
    BY <1>1, <2>3, Zenon DEF SortFold
  <2> QED BY <2>4
<1> HIDE DEF g, V, step
<1>8. ASSUME NEW s \in SUBSET (1 .. n)
      PROVE  g[s] = SortRound(g, s)
  <2> HIDE DEF n
  <2> QED BY <1>1, <1>7, Zenon DEF SortFold
<1> HIDE DEF n
<1>9. 0 \in M
  <2>1. 1 .. 0 = {} /\ 1 .. 0 \in SUBSET (1 .. n)
    OBVIOUS
  <2>2. g[1 .. 0] = data
    BY <1>8, <2>1, Zenon DEF SortRound
  <2> QED BY <1>2, <1>3, <2>2
<1>10. ASSUME NEW m \in M PROVE m + 1 \in M
  <2>1. SUFFICES ASSUME m + 1 <= n PROVE Done(g[1 .. m + 1], m + 1)
    OBVIOUS
  <2>2. m \in Nat /\ Done(g[1 .. m], m) /\ m \in 0 .. n - 1
    BY <1>1, <2>1
  <2>3. m + 1 \in Nat \ {0} /\ m + 1 \in 1 .. m + 1 /\ (1 .. m + 1) \ {m + 1} = 1 .. m
    BY <2>2
  <2>4. 1 .. m + 1 \in SUBSET (1 .. n) /\ 1 .. m + 1 # {}
    <3>1. \A i \in 1 .. m + 1 : i \in 1 .. n
      BY <1>1, <2>1, <2>2
    <3> QED BY <2>3, <3>1
  <2>5. Largest(1 .. m + 1) = m + 1
    BY <2>3, LargestOfUpto
  <2>6. g[1 .. m + 1] = Queue!OnePass(g[1 .. m])
    BY <1>8, <2>3, <2>4, <2>5, Zenon DEF SortRound
  <2>7. \E p : /\ Shows(Queue!OnePass(g[1 .. m]), p) /\ Stable(p) /\ Settled(p, m + 1)
    BY <2>2, PassSettles DEF n
  <2> QED BY <2>6, <2>7
<1>11. M = Nat
  <2>1. M \in SUBSET Nat
    OBVIOUS
  <2> HIDE DEF M
  <2> QED BY <1>9, <1>10, <2>1, EveryNumber
<1>12. Done(g[1 .. n], n)
  <2>1. n \in Nat /\ n <= n
    BY <1>1
  <2> HIDE DEF Done
  <2> QED BY <1>11, <2>1
<1>13. PICK p : Shows(g[1 .. n], p) /\ Stable(p) /\ Settled(p, n)
  BY <1>12
<1>14. Ordered(p)
  <2>1. p \in [1 .. n -> 1 .. n]
    BY <1>13 DEF Shows, n
  <2>2. \A i \in 1 .. n : left[p[i]][1] \in Nat /\ Key(p, i) = left[p[i]][1]
    BY <1>1, <2>1 DEF Key
  <2> SUFFICES ASSUME NEW i \in 1 .. n, NEW j \in 1 .. n, i < j
               PROVE  \/ left[p[i]][1] < left[p[j]][1]
                      \/ left[p[i]][1] = left[p[j]][1] /\ p[i] < p[j]
    BY DEF Ordered, n
  <2>3. Key(p, i) <= Key(p, j)
    <3>1. j > n - n
      BY <1>1
    <3> QED BY <1>13, <3>1 DEF Settled, n
  <2>4. Key(p, i) = Key(p, j) => p[i] < p[j]
    BY <1>13 DEF Stable, n
  <2> QED BY <2>2, <2>3, <2>4
<1> QED BY <1>1, <1>13, <1>14 DEF g

\* sort: the window has the pairs that it had, in the order of the keys.
LEMMA SortStep ==
  ASSUME Queue!QueueAssumption, QueueInv, Queue!Sort
  PROVE  QueueInv'
<1> DEFINE n == Len(left)
<1>1. n \in Nat /\ left \in [1 .. n -> QueueKeys \X QueueItems]
  BY DEF QueueInv
<1>2. PICK p : Shows(data', p) /\ Ordered(p)
  BY SortIsFold, SortSettles
<1>3. p \in [1 .. n -> 1 .. n]
  BY <1>2 DEF Shows
<1>4. left' = [i \in 1 .. n |-> left[p[i]]]
  <2> DEFINE Is(order) == \A i \in DOMAIN left, j \in DOMAIN left : i < j =>
               \/ left[order[i]][1] < left[order[j]][1]
               \/ left[order[i]][1] = left[order[j]][1] /\ order[i] < order[j]
             order == CHOOSE f \in [DOMAIN left -> DOMAIN left] : Is(f)
  <2>1. DOMAIN left = 1 .. n
    BY <1>1
  <2>2. \A f \in [1 .. n -> 1 .. n] : Is(f) <=> Ordered(f)
    BY <2>1 DEF Ordered
  <2>3. p \in [DOMAIN left -> DOMAIN left] /\ Is(p)
    BY <1>2, <1>3, <2>1, <2>2
  <2>4. left' = [i \in DOMAIN left |-> left[order[i]]]
    BY SortIsFold DEF Queue!Sorted
  <2> HIDE DEF Is
  <2>5. order \in [DOMAIN left -> DOMAIN left] /\ Is(order)
    BY <2>3, Zenon
  <2> HIDE DEF order
  <2>6. order = p
    BY <1>2, <1>3, <2>1, <2>2, <2>5, OneOrder
  <2> QED BY <2>1, <2>4, <2>6
<1>5. left' \in Seq(QueueKeys \X QueueItems) /\ Len(left') = n
  <2>1. \A i \in 1 .. n : left[p[i]] \in QueueKeys \X QueueItems
    BY <1>1, <1>3
  <2> HIDE DEF n
  <2> QED BY <1>1, <1>4, <2>1
<1>6. UNCHANGED <<first, last, size>> /\ answer' = Queue!NoAnswer
  BY SortIsFold
<1>10. \E m \in Nat : first' = 2 * m
  BY <1>6 DEF QueueInv
<1>7. data' \in [0 .. last -> Nat]
      /\ \A i \in 1 .. n : /\ data'[first + 2 * i - 2] = left[p[i]][1]
                           /\ data'[first + 2 * i - 1] = left[p[i]][2]
  BY <1>2 DEF Shows
<1> HIDE DEF n
<1>8. \A i \in 1 .. Len(left') : /\ data'[first' + 2 * i - 2] = left'[i][1]
                                 /\ data'[first' + 2 * i - 1] = left'[i][2]
  BY <1>4, <1>5, <1>6, <1>7
<1>9. Queue!FindsItem'
  BY <1>6 DEF Queue!FindsItem, Queue!NoAnswer, Queue!Missing
<1> QED BY <1>5, <1>6, <1>7, <1>8, <1>9, <1>10 DEF QueueInv, n

\* A pair that the array has room for.
LEMMA EnqueueInside ==
  ASSUME Queue!QueueAssumption, QueueInv, NEW k \in QueueKeys, NEW v \in QueueItems,
         Queue!EnqueuePair(k, v), last + 2 < QueueLen
  PROVE  QueueInv'
<1> DEFINE n == Len(left)
<1>1. /\ n \in Nat /\ first \in Nat /\ last = first + 2 * n - 1
      /\ \A i \in 1 .. n : first + 2 * i - 2 \in 0 .. last /\ first + 2 * i - 1 \in 0 .. last
  BY QueueFacts
<1>2. /\ data \in [0 .. last -> Nat] /\ size = 2 * n /\ left \in Seq(QueueKeys \X QueueItems)
      /\ last \in -1 .. QueueLen - 1 /\ QueueLen \in Nat \ {0}
      /\ first \in 0 .. QueueLen
      /\ \A i \in 1 .. n : /\ data[first + 2 * i - 2] = left[i][1]
                           /\ data[first + 2 * i - 1] = left[i][2]
  BY DEF QueueInv, Queue!QueueAssumption
<1>12. k \in Nat /\ v \in Nat
  <2>1. EntryValues \in Nat /\ k \in 0 .. EntryValues - 1 /\ v \in 0 .. EntryValues - 1
    BY DEF Queue!QueueAssumption
  <2> QED BY <2>1
<1>13. \E m \in Nat : first' = 2 * m
  BY DEF QueueInv, Queue!EnqueuePair
<1>3. /\ last + 2 < QueueLen /\ last' = last + 2 /\ size' = size + 2 /\ first' = first
      /\ left' = Append(left, <<k, v>>) /\ answer' = Queue!NoAnswer
      /\ data' = Queue!Put(Queue!Put(data, last + 1, k), last + 2, v)
  BY DEF Queue!EnqueuePair
<1>4. <<k, v>> \in QueueKeys \X QueueItems
  OBVIOUS
<1>5. /\ left' \in Seq(QueueKeys \X QueueItems) /\ Len(left') = n + 1
      /\ left'[n + 1] = <<k, v>> /\ \A i \in 1 .. n : left'[i] = left[i]
  BY <1>2, <1>3, <1>4
<1> HIDE DEF n
<1> DEFINE d == Queue!Put(data, last + 1, k)
<1>6. d = [j \in 0 .. last + 1 |-> IF j = last + 1 THEN k ELSE data[j]]
  <2>1. DOMAIN data \cup {last + 1} = 0 .. last + 1
    BY <1>2
  <2> QED BY <2>1 DEF Queue!Put
<1> HIDE DEF d
<1>7. data' = [j \in 0 .. last + 2 |-> IF j = last + 2 THEN v ELSE d[j]]
  <2>1. DOMAIN d \cup {last + 2} = 0 .. last + 2
    <3>1. DOMAIN d = 0 .. last + 1
      BY <1>6
    <3>2. (0 .. last + 1) \cup {last + 2} = 0 .. last + 2
      BY <1>2
    <3> QED BY <3>1, <3>2
  <2> QED BY <1>3, <2>1 DEF Queue!Put, d
<1>8. /\ data' \in [0 .. last' -> Nat]
      /\ data'[last + 1] = k /\ data'[last + 2] = v
      /\ \A j \in 0 .. last : data'[j] = data[j]
  <2>1. /\ last + 1 # last + 2 /\ last + 1 \in 0 .. last + 2 /\ last + 2 \in 0 .. last + 2
        /\ last + 1 \in 0 .. last + 1
    BY <1>2
  <2>2. \A j \in 0 .. last : /\ j \in 0 .. last + 1 /\ j \in 0 .. last + 2
                             /\ j # last + 1 /\ j # last + 2
    BY <1>2
  <2>3. \A j \in 0 .. last + 2 : j \in 0 .. last \/ j = last + 1 \/ j = last + 2
    BY <1>2
  <2>4. \A j \in 0 .. last : data'[j] = data[j] /\ data[j] \in Nat
    BY <1>2, <1>6, <1>7, <2>2
  <2>5. data'[last + 1] = k /\ data'[last + 2] = v
    BY <1>6, <1>7, <2>1
  <2>6. \A j \in 0 .. last + 2 : data'[j] \in Nat
    BY <1>12, <2>3, <2>4, <2>5
  <2>7. data' = [j \in 0 .. last + 2 |-> data'[j]]
    BY <1>7
  <2> QED BY <1>3, <2>4, <2>5, <2>6, <2>7
<1>9. ASSUME NEW i \in 1 .. n + 1
      PROVE  /\ data'[first + 2 * i - 2] = left'[i][1]
             /\ data'[first + 2 * i - 1] = left'[i][2]
  <2>1. CASE i = n + 1
    <3>1. first + 2 * i - 2 = last + 1 /\ first + 2 * i - 1 = last + 2
      BY <1>1, <2>1
    <3> QED BY <1>5, <1>8, <2>1, <3>1
  <2>2. CASE i # n + 1
    <3>1. i \in 1 .. n
      BY <1>1, <2>2
    <3> QED BY <1>1, <1>2, <1>5, <1>8, <3>1
  <2> QED BY <2>1, <2>2
<1>10. /\ first' \in 0 .. QueueLen /\ last' \in -1 .. QueueLen - 1
       /\ size' = last' + 1 - first' /\ size' \in 0 .. QueueLen /\ size' = 2 * (n + 1)
  BY <1>1, <1>2, <1>3
<1>11. Queue!FindsItem'
  BY <1>3 DEF Queue!FindsItem, Queue!NoAnswer, Queue!Missing
<1> QED BY <1>3, <1>5, <1>8, <1>9, <1>10, <1>11, <1>13 DEF QueueInv

\* A pair behind it: the array is used up to its end, but the window is not full.
LEMMA EnqueuePast ==
  ASSUME Queue!QueueAssumption, QueueInv, NEW k \in QueueKeys, NEW v \in QueueItems,
         Queue!EnqueuePair(k, v), ~(last + 2 < QueueLen)
  PROVE  QueuePast'
<1> DEFINE n == Len(left)  h == QueueLen \div 2
<1>1. n \in Nat /\ first \in Nat /\ last = first + 2 * n - 1
  BY QueueFacts
<1>2. PICK m \in Nat : first = 2 * m
  BY DEF QueueInv
<1>3. /\ QueueLen \in Nat \ {0} /\ QueueLen % 2 = 0 /\ EntryValues \in Nat
      /\ k \in Nat /\ v \in Nat /\ EntryValues * v \in Nat
  <2>1. EntryValues \in Nat /\ k \in 0 .. EntryValues - 1 /\ v \in 0 .. EntryValues - 1
    BY DEF Queue!QueueAssumption
  <2>2. k \in Nat /\ v \in Nat /\ EntryValues * v \in Nat
    BY <2>1
  <2> QED BY <2>1, <2>2 DEF Queue!QueueAssumption
<1>4. QueueLen = 2 * h /\ h \in Int
  <2>1. 2 \in Nat \ {0} /\ QueueLen \in Int
    BY <1>3
  <2>2. h \in Int /\ QueueLen = 2 * h + (QueueLen % 2)
    BY <2>1, Division
  <2> HIDE DEF h
  <2> QED BY <1>3, <2>2
<1>5. /\ size # QueueLen /\ first' = k + EntryValues * v /\ data' = data /\ last' = last + 2
      /\ size' = size + 2 /\ left' = Append(left, <<k, v>>) /\ answer' = Queue!NoAnswer
  BY DEF Queue!EnqueuePair, Queue!Full
<1>6. /\ size = 2 * n /\ last \in -1 .. QueueLen - 1 /\ size \in 0 .. QueueLen
      /\ DOMAIN data = 0 .. last /\ Len(left') = n + 1
  BY <1>5 DEF QueueInv
<1> HIDE DEF n, h
<1>7. last = QueueLen - 1 /\ n < h
  <2>1. last + 1 = 2 * (m + n) /\ last + 1 <= 2 * h /\ last + 2 >= 2 * h
    BY <1>1, <1>2, <1>4, <1>6
  <2>2. m + n = h
    BY <1>1, <1>2, <1>4, <2>1
  <2>3. n # h /\ n <= h
    BY <1>1, <1>2, <1>4, <1>5, <1>6, <2>2
  <2> QED BY <1>1, <1>4, <2>1, <2>2, <2>3
<1>8. /\ last' = QueueLen + 1 /\ size' = 2 * (n + 1) /\ size' \in 0 .. QueueLen
      /\ size' < last' + 1 /\ first' \in Nat
  BY <1>1, <1>3, <1>4, <1>5, <1>6, <1>7
<1> QED BY <1>5, <1>6, <1>7, <1>8 DEF QueuePast

LEMMA EnqueueStep ==
  ASSUME Queue!QueueAssumption, QueueInv, NEW k \in QueueKeys, NEW v \in QueueItems,
         Queue!EnqueuePair(k, v)
  PROVE  QueueInv' \/ QueuePast'
BY EnqueueInside, EnqueuePast

LEMMA DequeueStep ==
  ASSUME Queue!QueueAssumption, QueueInv, Queue!DequeuePair
  PROVE  QueueInv'
<1> DEFINE n == Len(left)
<1>1. n \in Nat /\ first \in Nat /\ last = first + 2 * n - 1
  BY QueueFacts
<1>2. /\ data \in [0 .. last -> Nat] /\ size = 2 * n /\ left \in Seq(QueueKeys \X QueueItems)
      /\ last \in -1 .. QueueLen - 1 /\ QueueLen \in Nat \ {0}
      /\ first \in 0 .. QueueLen
      /\ \A i \in 1 .. n : /\ data[first + 2 * i - 2] = left[i][1]
                           /\ data[first + 2 * i - 1] = left[i][2]
  BY DEF QueueInv, Queue!QueueAssumption
<1>3. /\ size >= 2 /\ first' = first + 2 /\ size' = size - 2 /\ left' = Tail(left)
      /\ answer' = Queue!NoAnswer /\ data' = data /\ last' = last
  BY DEF Queue!DequeuePair, Queue!Advanced
<1>4. left # <<>>
  BY <1>2, <1>3
<1>5. /\ left' \in Seq(QueueKeys \X QueueItems) /\ Len(left') = n - 1
      /\ \A i \in 1 .. n - 1 : left'[i] = left[i + 1]
  BY <1>2, <1>3, <1>4
<1> HIDE DEF n
<1>6. ASSUME NEW i \in 1 .. n - 1
      PROVE  /\ data'[first' + 2 * i - 2] = left'[i][1]
             /\ data'[first' + 2 * i - 1] = left'[i][2]
  <2>1. /\ i + 1 \in 1 .. n /\ first' + 2 * i - 2 = first + 2 * (i + 1) - 2
        /\ first' + 2 * i - 1 = first + 2 * (i + 1) - 1
    BY <1>1, <1>3
  <2> QED BY <1>2, <1>3, <1>5, <2>1
<1>7. /\ first' \in 0 .. QueueLen /\ last' \in -1 .. QueueLen - 1
      /\ size' = last' + 1 - first' /\ size' \in 0 .. QueueLen /\ size' = 2 * (n - 1)
  <2>1. n >= 1
    BY <1>1, <1>2, <1>3
  <2>2. last + 1 <= QueueLen /\ last \in Int
    BY <1>2
  <2>3. first' <= QueueLen /\ first' \in Nat
    BY <1>1, <1>2, <1>3, <2>1, <2>2
  <2>4. size' = 2 * (n - 1) /\ size' = last' + 1 - first'
    BY <1>1, <1>2, <1>3
  <2>5. size' \in 0 .. QueueLen
    BY <1>1, <1>2, <1>3, <2>1, <2>2, <2>4
  <2> QED BY <1>2, <1>3, <2>3, <2>4, <2>5
<1>8. Queue!FindsItem'
  BY <1>3 DEF Queue!FindsItem, Queue!NoAnswer, Queue!Missing
<1>9. \E m \in Nat : first' = 2 * m
  <2>1. PICK m \in Nat : first = 2 * m
    BY DEF QueueInv
  <2>2. first' = 2 * (m + 1)
    BY <1>3, <2>1
  <2> QED BY <2>2
<1> QED BY <1>2, <1>3, <1>5, <1>6, <1>7, <1>8, <1>9 DEF QueueInv

\* The pairs of the window are those left.
LEMMA WindowIs ==
  ASSUME Queue!QueueAssumption, QueueInv
  PROVE  Queue!Window = left
<1> DEFINE n == Len(left)
<1>1. /\ size \div 2 = n
      /\ \A i \in 1 .. n : left[i] = <<left[i][1], left[i][2]>>
  <2>1. DOMAIN PassesOf = 1 .. n /\ DOMAIN PassesOf = 1 .. size \div 2 /\ n \in Nat
    BY QueueFacts DEF PassesOf
  <2>2. size \div 2 = n
    <3>1. size = 2 * n + 0 /\ n \in Int /\ 2 \in Nat \ {0} /\ 0 \in 0 .. 2 - 1
      BY <2>1 DEF QueueInv
    <3>2. (2 * n + 0) \div 2 = n
      BY <3>1, Quotient
    <3> QED BY <3>1, <3>2
  <2> QED BY <2>2, QueueFacts
<1>2. left \in [1 .. n -> QueueKeys \X QueueItems]
      /\ \A i \in 1 .. n : /\ data[first + 2 * i - 2] = left[i][1]
                           /\ data[first + 2 * i - 1] = left[i][2]
  BY DEF QueueInv
<1>3. Queue!Window = [i \in 1 .. n |-> <<data[first + 2 * i - 2], data[first + 2 * i - 1]>>]
  BY <1>1 DEF Queue!Window
<1> HIDE DEF n
<1>4. left = [i \in 1 .. n |-> left[i]]
  BY <1>2
<1>5. \A i \in 1 .. n : <<data[first + 2 * i - 2], data[first + 2 * i - 1]>> = left[i]
  BY <1>1, <1>2
<1>6. [i \in 1 .. n |-> <<data[first + 2 * i - 2], data[first + 2 * i - 1]>>]
        = [i \in 1 .. n |-> left[i]]
  BY <1>5
<1> QED BY <1>3, <1>4, <1>6, Zenon

LEMMA FindStep ==
  ASSUME Queue!QueueAssumption, QueueInv, NEW item \in QueueItems, Queue!Find(item)
  PROVE  QueueInv'
<1> DEFINE n == Len(left)
           hits == {i \in Queue!LookedAt : data[i] = item}
<1>1. /\ n \in Nat /\ first \in Nat /\ last = first + 2 * n - 1 /\ item \in Nat
  BY QueueFacts DEF Queue!QueueAssumption
<1>7. UNCHANGED <<data, first, last, size, left>>
  BY DEF Queue!Find
<1>8. CASE Queue!Fresh
  <2>1. Queue!FindsItem'
    BY <1>7, <1>8 DEF Queue!FindsItem, Queue!Fresh
  <2> QED BY <1>7, <2>1 DEF QueueInv
<1> SUFFICES ASSUME ~Queue!Fresh PROVE QueueInv'
  BY <1>8
<1>2. /\ answer' = [item |-> item,
                    index |-> IF hits = {} THEN Queue!Missing ELSE Queue!Min(hits) - 1]
      /\ UNCHANGED <<data, first, last, size, left>>
  BY <1>7 DEF Queue!Find
<1>3. Queue!LookedAt = {i \in first + 1 .. last - 1 : (i - first) % 2 = 1}
  BY DEF Queue!LookedAt
<1> HIDE DEF hits
<1>4. answer'.item = item
      /\ answer'.index = IF hits = {} THEN Queue!Missing ELSE Queue!Min(hits) - 1
  BY <1>2
<1>5. CASE hits = {}
  <2>1. answer'.index = Queue!Missing
    BY <1>4, <1>5
  <2>2. Queue!Window' = left
    <3>1. Queue!Window' = Queue!Window
      BY <1>2 DEF Queue!Window
    <3> QED BY <3>1, WindowIs
  <2>3. ASSUME NEW i \in 1 .. n - 1 PROVE left[i][2] # item
    <3> DEFINE o == first + 2 * i - 1
    <3>1. o - first = 2 * (i - 1) + 1 /\ i - 1 \in Int /\ i \in 1 .. n
      BY <1>1
    <3>2. (2 * (i - 1) + 1) % 2 = 1
      <4>1. 2 \in Nat \ {0} /\ 1 \in 0 .. 2 - 1
        OBVIOUS
      <4> QED BY <3>1, <4>1, Quotient
    <3>3. o \in first + 1 .. last - 1
      BY <1>1
    <3>4. data[o] = left[i][2]
      BY <3>1 DEF QueueInv
    <3> HIDE DEF o
    <3>5. o \in Queue!LookedAt
      BY <1>3, <3>1, <3>2, <3>3
    <3> QED BY <1>5, <3>4, <3>5 DEF hits
  <2>4. \A i \in 1 .. Len(Queue!Window') - 1 : Queue!Window'[i][2] # answer'.item
    BY <1>4, <2>2, <2>3
  <2>5. Queue!FindsItem'
    BY <2>1, <2>4 DEF Queue!FindsItem
  <2> QED BY <1>2, <2>5 DEF QueueInv
<1>6. CASE hits # {}
  <2>1. hits \in SUBSET Nat
    BY <1>1, <1>3 DEF hits
  <2> DEFINE o == Queue!Min(hits)
  <2>2. o \in hits
    <3>1. \E x \in hits : \A y \in hits : x <= y
      BY <1>6, <2>1, SmallestOf
    <3> QED BY <3>1 DEF Queue!Min
  <2> HIDE DEF o
  <2>3. o \in first + 1 .. last - 1 /\ (o - first) % 2 = 1 /\ data[o] = item
    BY <1>3, <2>2 DEF hits
  <2>4. answer'.index = o - 1
    BY <1>4, <1>6 DEF o
  <2>5. ((o - 1) - first) % 2 = 0
    <3> DEFINE x == o - first  q == x \div 2
    <3>1. x \in Int /\ x % 2 = 1 /\ (o - 1) - first = x - 1
      BY <1>1, <2>3
    <3> HIDE DEF x
    <3>2. 2 \in Nat \ {0} /\ 0 \in 0 .. 2 - 1
      OBVIOUS
    <3>3. q \in Int /\ x = 2 * q + (x % 2)
      BY <3>1, <3>2, Division
    <3> HIDE DEF q
    <3>4. x - 1 = 2 * q + 0
      BY <3>1, <3>3
    <3>5. (2 * q + 0) % 2 = 0
      BY <3>2, <3>3, Quotient
    <3> QED BY <3>1, <3>4, <3>5
  <2>6. (o - 1) + 1 = o /\ o - 1 >= first /\ o - 1 < last /\ o - 1 # Queue!Missing
    BY <1>1, <2>3 DEF Queue!Missing
  <2>7. Queue!FindsItem'
    BY <1>2, <1>4, <2>3, <2>4, <2>5, <2>6 DEF Queue!FindsItem
  <2> QED BY <1>2, <2>7 DEF QueueInv
<1> QED BY <1>5, <1>6

LEMMA QueueStep ==
  ASSUME Queue!QueueAssumption, QueueInv \/ QueuePast, [Queue!Next]_(Queue!vars)
  PROVE  QueueInv' \/ QueuePast'
<1>1. ASSUME UNCHANGED <<data, first, last, size, left, answer>>
      PROVE  QueueInv' \/ QueuePast'
  BY <1>1 DEF QueueInv, QueuePast, Queue!FindsItem, Queue!Fresh, Queue!Window
<1>2. CASE UNCHANGED Queue!vars
  BY <1>1, <1>2 DEF Queue!vars
<1>3. CASE Queue!EnqueueIgnored
  BY <1>1, <1>3 DEF Queue!EnqueueIgnored
<1>4. QueuePast => ~Queue!Next
  <2>1. QueuePast => Queue!Overrun
    BY DEF QueuePast, Queue!Overrun, Queue!QueueAssumption
  <2> QED BY <2>1 DEF Queue!Next
<1>5. CASE QueueInv /\ Queue!Next
  BY <1>3, <1>5, EnqueueStep, DequeueStep, SortStep, FindStep DEF Queue!Next
<1> QED BY <1>2, <1>4, <1>5

\* The workload of the queue (queue.c), for an array of any even length and any
\* keys and items: until the end of the array is passed, what is in the window
\* is what was put in and not taken out, a key together with its item, sorting
\* puts the keys in order and keeps the order of those that are equal, and find
\* returns the place of a key that has the item, unless the queue is fresh.  The
\* end is passed only by a queue that lost a pair and is not full.
THEOREM PairsKept ==
  ASSUME Queue!QueueAssumption
  PROVE  Queue!Spec => [](/\ Queue!TypeOK /\ Queue!InOrder /\ Queue!FindsItem
                          /\ Queue!OverrunsAfterDequeue)
<1>1. Queue!Init => QueueInv
  <2>1. Queue!Init => \E m \in Nat : first = 2 * m
    <3>1. 0 = 2 * 0
      OBVIOUS
    <3> QED BY <3>1 DEF Queue!Init
  <2> QED
    BY <2>1 DEF Queue!Init, Queue!QueueAssumption, QueueInv, Queue!FindsItem, Queue!NoAnswer,
                Queue!Missing
<1>2. (QueueInv \/ QueuePast) /\ [Queue!Next]_(Queue!vars) => (QueueInv \/ QueuePast)'
  BY QueueStep
<1>3. QueueInv \/ QueuePast
        => /\ Queue!TypeOK /\ Queue!InOrder /\ Queue!FindsItem
           /\ Queue!OverrunsAfterDequeue
  <2>1. CASE QueueInv
    <3>1. ~Queue!Overrun
      BY <2>1 DEF QueueInv, Queue!Overrun, Queue!QueueAssumption
    <3>2. Queue!InOrder
      BY <2>1, WindowIs DEF Queue!InOrder
    <3>3. Queue!TypeOK
      BY <2>1, <3>1 DEF QueueInv, Queue!TypeOK, Queue!QueueAssumption
    <3> QED BY <2>1, <3>1, <3>2, <3>3 DEF QueueInv, Queue!OverrunsAfterDequeue
  <2>2. CASE QueuePast
    <3>1. Queue!Overrun /\ QueueLen \in Nat
      BY <2>2 DEF QueuePast, Queue!Overrun, Queue!QueueAssumption
    <3>2. Queue!TypeOK
      BY <2>2, <3>1 DEF QueuePast, Queue!TypeOK
    <3>3. Queue!InOrder /\ Queue!OverrunsAfterDequeue
      BY <2>2, <3>1 DEF QueuePast, Queue!InOrder, Queue!OverrunsAfterDequeue
    <3>4. Queue!FindsItem
      BY <2>2 DEF QueuePast, Queue!FindsItem, Queue!NoAnswer
    <3> QED BY <3>2, <3>3, <3>4
  <2> QED BY <2>1, <2>2
<1> QED BY <1>1, <1>2, <1>3, PTL DEF Queue!Spec

-----------------------------------------------------------------------------
\* DeviceNames.tla: the lists are no longer than their bounds, and what is found
\* is a name.
NamesBound ==
  /\ Len(devices) <= MaxDevices /\ Len(fileSystems) <= MaxDevices
  /\ \A k \in Names!Channel : Len(channels[k]) <= MaxChannels
  /\ found = [kind |-> "not asked", name |-> <<>>] \/ found.name \in Names!NameSet \cup {<<>>}

LEMMA FirstIsName ==
  ASSUME NEW list \in Seq(Names!NameSet), NEW matches \in SUBSET (DOMAIN list)
  PROVE  Names!FirstWith(list, matches) \in Names!NameSet \cup {<<>>}
<1>1. CASE matches = {}
  BY <1>1 DEF Names!FirstWith
<1>2. CASE matches # {}
  <2>1. matches \in SUBSET Nat
    OBVIOUS
  <2>2. PICK x \in matches : \A y \in matches : x <= y
    BY <1>2, <2>1, SmallestOf
  <2>3. Names!Min(matches) \in matches
    BY <2>2 DEF Names!Min
  <2>4. list[Names!Min(matches)] \in Names!NameSet
    BY <2>3
  <2> QED BY <1>2, <2>4 DEF Names!FirstWith
<1> QED BY <1>1, <1>2

LEMMA NamesBoundStep ==
  ASSUME Names!NamesAssumption, NamesTyped, NamesBound, [Names!Next]_(Names!vars)
  PROVE  NamesBound'
<1>1. \A n \in Names!NameSet, list \in Seq(Names!NameSet) :
          Len(Names!Inserted(n, list)) = Len(list) + 1 /\ Len(list) \in Nat
  BY DEF Names!Inserted
<1>2. MaxDevices \in Nat /\ MaxChannels \in Nat
  BY DEF Names!NamesAssumption
<1>3. ASSUME NEW n \in Names!NameSet, Names!RegisterDevice(n) \/ Names!RegisterFileSystem(n)
      PROVE  NamesBound'
  <2>1. CASE Names!RegisterDevice(n)
    <3>1. /\ Len(devices) < MaxDevices /\ devices' = Names!Inserted(n, devices)
          /\ UNCHANGED <<fileSystems, channels, asked, found>> /\ devices \in Seq(Names!NameSet)
      BY <2>1 DEF Names!RegisterDevice, NamesTyped
    <3>2. Len(devices') <= MaxDevices
      BY <1>1, <1>2, <3>1
    <3> QED BY <3>1, <3>2 DEF NamesBound
  <2>2. CASE Names!RegisterFileSystem(n)
    <3>1. /\ Len(fileSystems) < MaxDevices /\ fileSystems' = Names!Inserted(n, fileSystems)
          /\ UNCHANGED <<devices, channels, asked, found>>
          /\ fileSystems \in Seq(Names!NameSet)
      BY <2>2 DEF Names!RegisterFileSystem, NamesTyped
    <3>2. Len(fileSystems') <= MaxDevices
      BY <1>1, <1>2, <3>1
    <3> QED BY <3>1, <3>2 DEF NamesBound
  <2> QED BY <1>3, <2>1, <2>2
<1>4. ASSUME NEW n \in Names!NameSet, NEW k \in Names!Channel, Names!RegisterChannel(k, n)
      PROVE  NamesBound'
  <2>1. /\ Len(channels[k]) < MaxChannels
        /\ channels' = [channels EXCEPT ![k] = Names!Inserted(n, channels[k])]
        /\ UNCHANGED <<devices, fileSystems, asked, found>>
        /\ channels \in [Names!Channel -> Seq(Names!NameSet)]
    BY <1>4 DEF Names!RegisterChannel, NamesTyped
  <2>2. Len(Names!Inserted(n, channels[k])) <= MaxChannels
    BY <1>1, <1>2, <2>1
  <2>3. \A l \in Names!Channel : Len(channels'[l]) <= MaxChannels
    BY <2>1, <2>2 DEF NamesBound
  <2> QED BY <2>1, <2>3 DEF NamesBound
<1>5. ASSUME NEW n, NEW b, Names!Open(n, b)
      PROVE  NamesBound'
  <2> DEFINE device == Names!FindDev(n, devices)
             fs == Names!FirstWith(fileSystems,
                     {i \in DOMAIN fileSystems : Names!Owns(fileSystems[i], n, b)})
  <2>1. device \in Names!NameSet \cup {<<>>}
    BY FirstIsName DEF Names!FindDev, NamesTyped
  <2>2. fs \in Names!NameSet \cup {<<>>}
    BY FirstIsName DEF NamesTyped
  <2>3. found' = Names!Result(device, fs) /\ UNCHANGED <<devices, fileSystems, channels>>
    BY <1>5 DEF Names!Open
  <2> HIDE DEF device, fs
  <2>4. found'.name \in Names!NameSet \cup {<<>>}
    BY <2>1, <2>2, <2>3 DEF Names!Result
  <2> QED BY <2>3, <2>4 DEF NamesBound
<1>6. ASSUME NEW n, Names!OpenChannel(n)
      PROVE  NamesBound'
  <2>1. \A k \in Names!Channel : Names!FindDev(n, channels[k]) \in Names!NameSet \cup {<<>>}
    <3> TAKE k \in Names!Channel
    <3>1. channels[k] \in Seq(Names!NameSet)
      BY DEF NamesTyped
    <3> QED BY <3>1, FirstIsName DEF Names!FindDev
  <2>2. /\ found' \in {Names!OpenReceive(n), Names!OpenTransmit(n), Names!OpenFlash(n)}
        /\ UNCHANGED <<devices, fileSystems, channels>>
    BY <1>6 DEF Names!OpenChannel
  <2>3. {"receive", "transmit", "flash"} \subseteq Names!Channel
    BY DEF Names!Channel
  <2>4. found'.name \in Names!NameSet \cup {<<>>}
    BY <2>1, <2>2, <2>3 DEF Names!OpenReceive, Names!OpenTransmit, Names!OpenFlash
  <2> QED BY <2>2, <2>4 DEF NamesBound
<1>7. CASE UNCHANGED Names!vars
  BY <1>7 DEF Names!vars, NamesBound
<1> QED BY <1>3, <1>4, <1>5, <1>6, <1>7 DEF Names!Next

LEMMA NamesTypeCorrect ==
  ASSUME Names!NamesAssumption
  PROVE  Names!Spec => []Names!TypeOK
<1>1. Names!Init => NamesBound
  <2> SUFFICES ASSUME Names!Init PROVE NamesBound
    OBVIOUS
  <2>1. PICK null \in Names!NameSet : devices = <<null>>
    BY DEF Names!Init
  <2>2. MaxDevices \in Nat \ {0} /\ MaxChannels \in Nat
    BY DEF Names!NamesAssumption
  <2>3. Len(devices) <= MaxDevices
    <3>1. Len(<<null>>) = 1
      OBVIOUS
    <3> QED BY <2>1, <2>2, <3>1
  <2>4. Len(<<>>) <= MaxDevices /\ Len(<<>>) <= MaxChannels
    BY <2>2
  <2> QED BY <2>3, <2>4 DEF Names!Init, NamesBound
<1>2. NamesTyped /\ NamesBound => Names!TypeOK
  BY DEF NamesTyped, NamesBound, Names!TypeOK
<1>3. NamesTyped /\ NamesBound /\ [Names!Next]_(Names!vars) => NamesBound'
  BY NamesBoundStep
<1> QED BY <1>1, <1>2, <1>3, NamesStart, NamesStep, PTL DEF Names!Spec

-----------------------------------------------------------------------------
\* LogPrintf.tla: a width or a precision has no more figures than the format.

LEMMA PowersAre ==
  ASSUME Printf!LogPrintfAssumption
  PROVE  /\ \A n \in 0 .. FormatLen : Printf!PowerOfTen[n] \in Nat \ {0}
         /\ Printf!PowerOfTen[0] = 1
         /\ \A n \in 1 .. FormatLen : Printf!PowerOfTen[n] = 10 * Printf!PowerOfTen[n - 1]
<1> DEFINE At(f, n) == IF n = 0 THEN 1 ELSE 10 * f[n - 1]
           Upto(k) == k <= FormatLen =>
                        \E f \in [0 .. k -> Nat \ {0}] : \A n \in 0 .. k : f[n] = At(f, n)
           K == {k \in Nat : Upto(k)}
<1>1. FormatLen \in Nat
  BY DEF Printf!LogPrintfAssumption
<1>2. 0 \in K
  <2> DEFINE f == [n \in 0 .. 0 |-> 1]
  <2>1. f \in [0 .. 0 -> Nat \ {0}] /\ \A n \in 0 .. 0 : f[n] = At(f, n)
    OBVIOUS
  <2> HIDE DEF f, At
  <2> QED BY <2>1
<1>3. ASSUME NEW k \in K PROVE k + 1 \in K
  <2>1. SUFFICES ASSUME k + 1 <= FormatLen
                 PROVE  \E f \in [0 .. k + 1 -> Nat \ {0}] : \A n \in 0 .. k + 1 : f[n] = At(f, n)
    <3> HIDE DEF Upto
    <3>1. SUFFICES Upto(k + 1)
      BY SMT
    <3> QED BY DEF Upto
  <2>2. k \in Nat /\ k <= FormatLen /\ Upto(k)
    <3> HIDE DEF Upto
    <3> QED BY <1>1, <2>1
  <2>3. PICK f \in [0 .. k -> Nat \ {0}] : \A n \in 0 .. k : f[n] = At(f, n)
    BY <2>2
  <2> DEFINE h == [n \in 0 .. k + 1 |-> IF n = k + 1 THEN 10 * f[k] ELSE f[n]]
  <2>4. h \in [0 .. k + 1 -> Nat \ {0}]
    <3>1. ASSUME NEW n \in 0 .. k + 1
          PROVE  (IF n = k + 1 THEN 10 * f[k] ELSE f[n]) \in Nat \ {0}
      <4>1. f[k] \in Nat \ {0} /\ 10 * f[k] \in Nat \ {0}
        BY <2>2
      <4>2. n # k + 1 => n \in 0 .. k
        BY <2>2
      <4> QED BY <4>1, <4>2
    <3> QED BY <3>1
  <2>5. ASSUME NEW n \in 0 .. k + 1 PROVE h[n] = At(h, n)
    <3>1. CASE n = k + 1
      <4>1. n - 1 = k /\ k \in 0 .. k + 1 /\ k # k + 1 /\ n # 0
        BY <2>2, <3>1
      <4> QED BY <3>1, <4>1
    <3>2. CASE n # k + 1
      <4>1. n \in 0 .. k /\ h[n] = f[n] /\ f[n] = At(f, n)
        BY <2>2, <2>3, <3>2
      <4>2. CASE n # 0
        <5>1. n - 1 \in 0 .. k + 1 /\ n - 1 # k + 1
          BY <2>2, <4>1, <4>2
        <5>2. h[n - 1] = f[n - 1]
          BY <5>1
        <5> QED BY <4>1, <4>2, <5>2
      <4> QED BY <4>1, <4>2
    <3> QED BY <3>1, <3>2
  <2> HIDE DEF h, At
  <2> QED BY <2>4, <2>5
<1>4. Upto(FormatLen)
  <2> HIDE DEF Upto
  <2>1. K \in SUBSET Nat
    OBVIOUS
  <2>2. K = Nat
    <3> HIDE DEF K
    <3> QED BY <1>2, <1>3, <2>1, EveryNumber
  <2> QED BY <1>1, <2>2
<1>5. PICK f \in [0 .. FormatLen -> Nat \ {0}] : \A n \in 0 .. FormatLen : f[n] = At(f, n)
  <2>1. FormatLen <= FormatLen
    BY <1>1
  <2> QED BY <1>4, <2>1, Zenon
<1> DEFINE Is(h) == h = [n \in 0 .. FormatLen |-> At(h, n)]
<1>6. Is(f)
  <2> HIDE DEF At
  <2> QED BY <1>5
<1>7. Printf!PowerOfTen = CHOOSE h : Is(h)
  BY Zenon DEF Printf!PowerOfTen
<1>8. Is(Printf!PowerOfTen)
  <2> HIDE DEF Is
  <2> QED BY <1>6, <1>7, Zenon
<1>9. \A n \in 0 .. FormatLen : Printf!PowerOfTen[n] = At(Printf!PowerOfTen, n)
  <2> HIDE DEF At
  <2> QED BY <1>8, Zenon
<1> DEFINE power == Printf!PowerOfTen
<1> HIDE DEF power, K, Upto, Is
<1>10. power[0] = 1 /\ \A n \in 1 .. FormatLen : power[n] = 10 * power[n - 1]
  <2>1. \A n \in 1 .. FormatLen : n \in 0 .. FormatLen /\ n # 0
    BY <1>1
  <2> QED BY <1>1, <1>9, <2>1 DEF power
<1> DEFINE P == {k \in Nat : k <= FormatLen => power[k] \in Nat \ {0}}
<1>11. P = Nat
  <2>1. 0 \in P
    BY <1>10
  <2>2. ASSUME NEW k \in P PROVE k + 1 \in P
    <3>1. SUFFICES ASSUME k + 1 <= FormatLen PROVE power[k + 1] \in Nat \ {0}
      OBVIOUS
    <3>2. power[k] \in Nat \ {0} /\ k + 1 \in 1 .. FormatLen /\ (k + 1) - 1 = k
      BY <1>1, <3>1
    <3>3. power[k + 1] = 10 * power[k]
      BY <1>10, <3>2
    <3> QED BY <3>2, <3>3
  <2>3. P \in SUBSET Nat
    OBVIOUS
  <2> HIDE DEF P
  <2> QED BY <2>1, <2>2, <2>3, EveryNumber
<1>12. \A n \in 0 .. FormatLen : power[n] \in Nat \ {0}
  BY <1>1, <1>11
<1> QED BY <1>10, <1>12 DEF power

SpecSet == [zero : BOOLEAN, base : {8, 10, 16}, signed : BOOLEAN, upper : BOOLEAN,
            width : Int, precision : Int]
Figures(x, n) == -1 <= x /\ x < Printf!PowerOfTen[n]
PrintfInv ==
  /\ Len(fmt) \in 0 .. FormatLen /\ pos \in 1 .. Len(fmt) + 1
  /\ state \in {"chars", "first", "other"} /\ spec \in SpecSet
  /\ Figures(spec.width, pos - 1) /\ Figures(spec.precision, pos - 1)

\* One more character is one more figure at most.
LEMMA FiguresGrow ==
  ASSUME Printf!LogPrintfAssumption, NEW n \in 0 .. FormatLen - 1, NEW x \in Int, Figures(x, n)
  PROVE  /\ Figures(x, n + 1) /\ Figures(-1, n + 1) /\ Figures(0, n + 1)
         /\ \A d \in 0 .. 9 : /\ Figures(d, n + 1)
                            /\ (Figures(x * 10 + d, n + 1) \/ x = -1)
<1> DEFINE low == Printf!PowerOfTen[n]  high == Printf!PowerOfTen[n + 1]
<1>1. low \in Nat \ {0} /\ high = 10 * low
  <2>1. FormatLen \in Nat
    BY DEF Printf!LogPrintfAssumption
  <2>2. n \in 0 .. FormatLen /\ n + 1 \in 1 .. FormatLen /\ (n + 1) - 1 = n
    BY <2>1
  <2> QED BY <2>2, PowersAre
<1>2. -1 <= x /\ x < low
  BY DEF Figures
<1> HIDE DEF low, high
<1>3. /\ -1 <= x /\ x < high /\ -1 < high /\ 0 < high
      /\ \A d \in 0 .. 9 : d < high /\ (x # -1 => -1 <= x * 10 + d /\ x * 10 + d < high)
  BY <1>1, <1>2
<1> QED BY <1>3 DEF Figures, high

LEMMA DigitIs ==
  ASSUME NEW c \in Printf!Decimal
  PROVE  Printf!DigitOf(c) \in 0 .. 9
<1>1. \E i \in 1 .. 10 : Printf!Lower[i] = c
  BY DEF Printf!Decimal
<1>2. (CHOOSE i \in 1 .. 10 : Printf!Lower[i] = c) \in 1 .. 10
  BY <1>1
<1>3. \A i \in 1 .. 10 : i - 1 \in 0 .. 9
  OBVIOUS
<1> QED BY <1>2, <1>3, Zenon DEF Printf!DigitOf

LEMMA PrintfStep ==
  ASSUME Printf!LogPrintfAssumption, PrintfInv, [Printf!Next]_(Printf!vars)
  PROVE  PrintfInv'
<1> DEFINE n == pos - 1
<1>1. FormatLen \in Nat
  BY DEF Printf!LogPrintfAssumption
<1>2. /\ spec \in SpecSet /\ spec.width \in Int /\ spec.precision \in Int
      /\ Figures(spec.width, n) /\ Figures(spec.precision, n)
      /\ Len(fmt) \in 0 .. FormatLen /\ pos \in 1 .. Len(fmt) + 1
  BY DEF PrintfInv, SpecSet
<1>3. ASSUME NEW s \in {"chars", "first", "other"}, NEW conv \in SpecSet, NEW text,
             Printf!Step(s, conv, text), pos <= Len(fmt),
             Figures(conv.width, pos), Figures(conv.precision, pos)
      PROVE  PrintfInv'
  <2>1. /\ state' = s /\ spec' = conv /\ pos' = pos + 1 /\ fmt' = fmt
    BY <1>3 DEF Printf!Step
  <2>2. pos' \in 1 .. Len(fmt') + 1 /\ pos' - 1 = pos /\ Len(fmt') \in 0 .. FormatLen
    BY <1>1, <1>2, <1>3, <2>1
  <2>3. Figures(spec'.width, pos' - 1) /\ Figures(spec'.precision, pos' - 1)
    BY <1>3, <2>1, <2>2
  <2>4. Figures(spec.width, pos - 1)' /\ Figures(spec.precision, pos - 1)'
    BY <2>3, Zenon DEF Figures
  <2> QED BY <1>3, <2>1, <2>2, <2>4 DEF PrintfInv
<1>4. ASSUME pos <= Len(fmt)
      PROVE  /\ n \in 0 .. FormatLen - 1 /\ n + 1 = pos
             /\ Figures(spec.width, pos) /\ Figures(spec.precision, pos)
             /\ Figures(-1, pos) /\ Figures(0, pos)
             /\ \A d \in 0 .. 9 :
                  /\ Figures(Printf!Width(spec.width, d), pos)
                  /\ ~(spec.precision < 0) => Figures(spec.precision * 10 + d, pos)
  <2>1. n \in 0 .. FormatLen - 1 /\ n + 1 = pos
    BY <1>1, <1>2, <1>4
  <2>2. /\ Figures(spec.width, n + 1) /\ Figures(spec.precision, n + 1)
        /\ Figures(-1, n + 1) /\ Figures(0, n + 1)
        /\ \A d \in 0 .. 9 :
             /\ Figures(d, n + 1)
             /\ (Figures(spec.width * 10 + d, n + 1) \/ spec.width = -1)
             /\ (Figures(spec.precision * 10 + d, n + 1) \/ spec.precision = -1)
    <3> HIDE DEF n
    <3> DEFINE w == spec.width  p == spec.precision
    <3>1. w \in Int /\ p \in Int /\ Figures(w, n) /\ Figures(p, n)
      BY <1>2
    <3> HIDE DEF w, p
    <3>2. /\ Figures(w, n + 1) /\ Figures(-1, n + 1) /\ Figures(0, n + 1)
          /\ \A d \in 0 .. 9 : /\ Figures(d, n + 1)
                             /\ (Figures(w * 10 + d, n + 1) \/ w = -1)
      BY <2>1, <3>1, FiguresGrow
    <3>3. /\ Figures(p, n + 1)
          /\ \A d \in 0 .. 9 : (Figures(p * 10 + d, n + 1) \/ p = -1)
      BY <2>1, <3>1, FiguresGrow
    <3> QED BY <3>2, <3>3 DEF w, p
  <2> HIDE DEF n
  <2>3. (spec.width < 0 <=> spec.width = -1) /\ (spec.precision < 0 <=> spec.precision = -1)
    BY <1>2 DEF Figures
  <2> QED BY <2>1, <2>2, <2>3 DEF Printf!Width
<1>5. Printf!NoSpec \in SpecSet /\ Printf!NoSpec.width = -1 /\ Printf!NoSpec.precision = -1
  BY DEF Printf!NoSpec, SpecSet
<1>6. CASE UNCHANGED Printf!vars
  BY <1>6 DEF Printf!vars, PrintfInv, Figures
<1>7. CASE Printf!Literal \/ Printf!Percent
  BY <1>2, <1>3, <1>4, <1>7 DEF Printf!Literal, Printf!Percent, Printf!At
<1>8. CASE Printf!Opening
  BY <1>3, <1>4, <1>5, <1>8 DEF Printf!Opening, Printf!At
<1>9. CASE Printf!ZeroFlag
  <2> DEFINE conv == [spec EXCEPT !.zero = TRUE]
  <2>1. conv \in SpecSet /\ conv.width = spec.width /\ conv.precision = spec.precision
    BY <1>2 DEF SpecSet
  <2>2. Printf!Step("other", conv, <<>>) /\ pos <= Len(fmt)
    BY <1>9 DEF Printf!ZeroFlag, Printf!At
  <2> HIDE DEF conv
  <2> QED BY <1>3, <1>4, <2>1, <2>2
<1>10. Printf!InSpec => pos <= Len(fmt)
  BY DEF Printf!InSpec, Printf!At
<1>11. CASE Printf!Point
  <2> DEFINE conv == [spec EXCEPT !.precision = 0]
  <2>1. conv \in SpecSet /\ conv.width = spec.width /\ conv.precision = 0
    BY <1>2 DEF SpecSet
  <2>2. Printf!Step("other", conv, <<>>) /\ pos <= Len(fmt)
    BY <1>10, <1>11 DEF Printf!Point
  <2> HIDE DEF conv
  <2> QED BY <1>3, <1>4, <2>1, <2>2
<1>12. CASE Printf!Long
  BY <1>2, <1>3, <1>4, <1>10, <1>12 DEF Printf!Long
<1>13. CASE Printf!Figure
  <2> DEFINE d == Printf!DigitOf(Printf!c)
  <2>1. d \in 0 .. 9 /\ pos <= Len(fmt)
    BY <1>10, <1>13, DigitIs DEF Printf!Figure
  <2>2. Printf!Step("other",
                    IF spec.precision < 0
                    THEN [spec EXCEPT !.width = Printf!Width(spec.width, d)]
                    ELSE [spec EXCEPT !.precision = spec.precision * 10 + d], <<>>)
    BY <1>13 DEF Printf!Figure
  <2> HIDE DEF d
  <2>3. Printf!Width(spec.width, d) \in Int /\ spec.precision * 10 + d \in Int
    BY <1>2, <2>1 DEF Printf!Width
  <2>4. CASE spec.precision < 0
    <3> DEFINE w == Printf!Width(spec.width, d)  conv == [spec EXCEPT !.width = w]
    <3>1. w \in Int /\ Figures(w, pos)
      BY <1>4, <2>1, <2>3
    <3>2. Printf!Step("other", conv, <<>>)
      BY <2>2, <2>4
    <3> HIDE DEF w
    <3>3. conv \in SpecSet /\ conv.width = w /\ conv.precision = spec.precision
      BY <1>2, <3>1 DEF SpecSet
    <3> HIDE DEF conv
    <3> QED BY <1>3, <1>4, <2>1, <3>1, <3>2, <3>3
  <2>5. CASE ~(spec.precision < 0)
    <3> DEFINE w == spec.precision * 10 + d  conv == [spec EXCEPT !.precision = w]
    <3>1. w \in Int /\ Figures(w, pos)
      BY <1>4, <2>1, <2>3, <2>5
    <3>2. Printf!Step("other", conv, <<>>)
      BY <2>2, <2>5
    <3> HIDE DEF w
    <3>3. conv \in SpecSet /\ conv.width = spec.width /\ conv.precision = w
      BY <1>2, <3>1 DEF SpecSet
    <3> HIDE DEF conv
    <3> QED BY <1>3, <1>4, <2>1, <3>1, <3>2, <3>3
  <2> QED BY <2>4, <2>5
<1>14. CASE Printf!IntegerPrint
  <2> DEFINE base == CASE Printf!c = "o" -> 8 [] Printf!c \in {"x", "X"} -> 16
                        [] OTHER -> spec.base
             isSigned == Printf!c \in {"d", "i"}
             isUpper == Printf!c = "X"
             conv == [spec EXCEPT !.signed = isSigned, !.base = base, !.upper = isUpper]
  <2>1. base \in {8, 10, 16}
    <3>1. spec.base \in {8, 10, 16}
      BY <1>2 DEF SpecSet
    <3> QED BY <3>1
  <2>2. Printf!Step("chars", conv, Printf!Number(conv)) /\ pos <= Len(fmt)
    BY <1>10, <1>14 DEF Printf!IntegerPrint
  <2>4. isSigned \in {TRUE, FALSE} /\ isUpper \in {TRUE, FALSE}
    <3>1. \A x, S : (x \in S) = TRUE \/ (x \in S) = FALSE
      BY SMT
    <3>2. \A x, S : (x = S) = TRUE \/ (x = S) = FALSE
      BY SMT
    <3>3. (isSigned = TRUE \/ isSigned = FALSE) /\ (isUpper = TRUE \/ isUpper = FALSE)
      BY <3>1, <3>2, Zenon
    <3> HIDE DEF isSigned, isUpper
    <3> QED BY <3>3
  <2> HIDE DEF base, isSigned, isUpper
  <2>3. conv \in SpecSet /\ conv.width = spec.width /\ conv.precision = spec.precision
    BY <1>2, <2>1, <2>4 DEF SpecSet
  <2> HIDE DEF conv
  <2> QED BY <1>3, <1>4, <2>2, <2>3
<1>15. CASE Printf!StringPrint \/ Printf!CharPrint \/ Printf!Unknown
  BY <1>2, <1>3, <1>4, <1>10, <1>15 DEF Printf!StringPrint, Printf!CharPrint, Printf!Unknown
<1> QED BY <1>6, <1>7, <1>8, <1>9, <1>11, <1>12, <1>13, <1>14, <1>15 DEF Printf!Next

LEMMA PrintfTypeCorrect ==
  ASSUME Printf!LogPrintfAssumption
  PROVE  Printf!Spec => []Printf!TypeOK
<1>1. FormatLen \in Nat
  BY DEF Printf!LogPrintfAssumption
<1>2. Printf!Init => PrintfInv
  <2> SUFFICES ASSUME Printf!Init PROVE PrintfInv
    OBVIOUS
  <2>1. PICK m \in 0 .. FormatLen : fmt \in [1 .. m -> FormatChars]
    BY DEF Printf!Init, Printf!SeqOf
  <2>2. Len(fmt) = m
    BY <1>1, <2>1
  <2>3. Printf!PowerOfTen[0] = 1
    BY PowersAre
  <2>4. pos = 1 /\ state = "chars" /\ spec = Printf!NoSpec
    BY DEF Printf!Init
  <2>5. spec \in SpecSet /\ spec.width = -1 /\ spec.precision = -1
    BY <2>4 DEF Printf!NoSpec, SpecSet
  <2>6. pos - 1 = 0 /\ pos \in 1 .. Len(fmt) + 1
    BY <1>1, <2>2, <2>4
  <2> QED BY <1>1, <2>2, <2>3, <2>4, <2>5, <2>6 DEF PrintfInv, Figures
<1>3. PrintfInv => Printf!TypeOK
  <2> SUFFICES ASSUME PrintfInv PROVE Printf!TypeOK
    OBVIOUS
  <2> DEFINE power == Printf!PowerOfTen
             Grown == {k \in Nat : \A n \in 0 .. FormatLen : n + k <= FormatLen
                                     => power[n] <= power[n + k]}
  <2>1. /\ \A n \in 0 .. FormatLen : power[n] \in Nat \ {0}
        /\ \A n \in 1 .. FormatLen : power[n] = 10 * power[n - 1]
    BY PowersAre
  <2> HIDE DEF power
  <2>2. 0 \in Grown
    <3>1. \A n \in 0 .. FormatLen : power[n] <= power[n + 0]
      BY <1>1, <2>1
    <3> QED BY <3>1
  <2>3. ASSUME NEW k \in Grown PROVE k + 1 \in Grown
    <3>1. ASSUME NEW n \in 0 .. FormatLen, n + (k + 1) <= FormatLen
          PROVE  power[n] <= power[n + (k + 1)]
      <4>1. /\ k \in Nat /\ n + k <= FormatLen /\ n + k \in 0 .. FormatLen
            /\ n + (k + 1) \in 1 .. FormatLen /\ (n + (k + 1)) - 1 = n + k
        BY <1>1, <3>1
      <4>2. power[n] <= power[n + k]
        BY <4>1
      <4>3. power[n + (k + 1)] = 10 * power[n + k]
        BY <2>1, <4>1
      <4> QED BY <2>1, <4>1, <4>2, <4>3
    <3> QED BY <3>1
  <2>4. Grown = Nat
    <3>1. Grown \in SUBSET Nat
      OBVIOUS
    <3> HIDE DEF Grown
    <3> QED BY <2>2, <2>3, <3>1, EveryNumber
  <2>5. pos - 1 \in 0 .. FormatLen /\ FormatLen - (pos - 1) \in Nat
        /\ (pos - 1) + (FormatLen - (pos - 1)) = FormatLen
    BY <1>1 DEF PrintfInv
  <2>6. power[pos - 1] <= power[FormatLen]
    <3> DEFINE k == FormatLen - (pos - 1)
    <3>1. k \in Grown /\ (pos - 1) + k <= FormatLen /\ (pos - 1) + k = FormatLen
      BY <1>1, <2>4, <2>5
    <3> HIDE DEF k
    <3> QED BY <2>5, <3>1
  <2>7. /\ -1 <= spec.width /\ spec.width < power[pos - 1] /\ spec.width \in Int
        /\ -1 <= spec.precision /\ spec.precision < power[pos - 1] /\ spec.precision \in Int
        /\ spec.base \in {8, 10, 16}
    BY DEF PrintfInv, Figures, SpecSet, power
  <2>8. power[pos - 1] \in Nat /\ power[FormatLen] \in Nat
    BY <1>1, <2>1, <2>5
  <2>9. spec.width \in -1 .. power[FormatLen] /\ spec.precision \in -1 .. power[FormatLen]
    BY <2>6, <2>7, <2>8
  <2> QED BY <2>7, <2>9 DEF PrintfInv, Printf!TypeOK, power
<1> QED BY <1>2, <1>3, PrintfStep, PTL DEF Printf!Spec

-----------------------------------------------------------------------------
\* MCStores.tla: the parts as the run composes them.

Words == "heap of words"
ComposedInv ==
  /\ part \in Parts
  /\ \A kind \in HeapParts : part = kind => HeapInv(kind)
  /\ part = Words => OverlapInv(Words) /\ AlarmInv(Words)
  /\ part = "caches" => CacheInv

LEMMA StoresAssumed ==
  /\ \A kind \in HeapParts : Heaps(kind)!HeapAssumption
  /\ WholeWords(Words) /\ ~OwnStack(Words) /\ Words \in HeapParts
  /\ Caches!CacheAssumption
BY StoresAssumption DEF WholeWords, Words, OwnStack, HeapParts

LEMMA ComposedStarts == MCInit => ComposedInv
<1> SUFFICES ASSUME MCInit PROVE ComposedInv
  OBVIOUS
<1>1. \A kind \in HeapParts : Heaps(kind)!Init
  BY DEF MCInit, Heaps!Init
<1>2. \A kind \in HeapParts : HeapInv(kind) /\ OverlapInv(kind) /\ AlarmInv(kind)
  BY <1>1, StoresAssumed, HeapStarts, OverlapStarts
<1>3. CacheInv
  BY StoresAssumed, CacheStarts DEF MCInit
<1>4. QED
  BY <1>2, <1>3, StoresAssumed DEF MCInit, ComposedInv

\* A step is one of the part that runs.
LEMMA PartsStep ==
  ASSUME part \in Parts, [MCNext]_MCVars
  PROVE  /\ part' = part
         /\ \A kind \in HeapParts : part = kind => [Heaps(kind)!Next]_(Heaps(kind)!vars)
         /\ part = "caches" => [Caches!Next]_(Caches!vars)
         /\ part # "caches" => UNCHANGED Caches!vars
<1> DEFINE Goal ==
      /\ part' = part
      /\ \A kind \in HeapParts : part = kind => [Heaps(kind)!Next]_(Heaps(kind)!vars)
      /\ part = "caches" => [Caches!Next]_(Caches!vars)
      /\ part # "caches" => UNCHANGED Caches!vars
<1>1. "caches" \in Parts /\ "caches" \notin HeapParts
  BY DEF Parts, HeapParts
<1>2. ASSUME NEW kind \in HeapParts, By(kind, Heaps(kind)!Next) PROVE Goal
  <2>1. part = kind /\ part' = part /\ Heaps(kind)!Next /\ Keeps("caches")
    BY <1>1, <1>2 DEF By
  <2>2. UNCHANGED Caches!vars
    BY <2>1 DEF Keeps, HeapParts, cacheVars, Caches!vars
  <2>3. QED
    BY <1>1, <2>1, <2>2
<1>3. ASSUME By("caches", Caches!Next) PROVE Goal
  BY <1>1, <1>3 DEF By
<1>4. ASSUME NEW p \in Parts \ (HeapParts \cup {"caches"}), part = p, UNCHANGED part, Keeps("caches")
      PROVE  Goal
  <2>1. UNCHANGED Caches!vars
    BY <1>4 DEF Keeps, HeapParts, cacheVars, Caches!vars
  <2>2. QED
    BY <1>4, <2>1
<1>5. ASSUME UNCHANGED MCVars PROVE Goal
  <2>1. UNCHANGED <<part, heapVars, cacheVars>>
    BY <1>5 DEF MCVars
  <2>2. UNCHANGED Caches!vars /\ \A kind \in HeapParts : UNCHANGED Heaps(kind)!vars
    BY <2>1 DEF heapVars, cacheVars, Caches!vars, Heaps!vars
  <2>3. QED
    BY <2>1, <2>2
<1> DEFINE Others == Parts \ (HeapParts \cup {"caches"})
<1>6. ASSUME \/ By("files", Files!Next) \/ By("calls", Calls!Next)
             \/ By("names", Names!Next /\ FewNames) \/ By("counter", Counter!Next)
             \/ By("printf", Printf!Next) \/ By("router", Router!Next)
             \/ By("queue", Queue!Next)
      PROVE  Goal
  <2> HIDE DEF Goal
  <2>1. {"files", "calls", "names", "counter", "printf", "router", "queue"} \subseteq Others
    BY DEF Parts, HeapParts
  <2>2. \E p \in Others : part = p /\ UNCHANGED part /\ \A q \in Parts \ {p} : Keeps(q)
    <3> HIDE DEF Others
    <3>1. \A p \in Others : p \notin HeapParts
      BY DEF Others
    <3>2. QED
      BY <1>6, <2>1, <3>1 DEF By
  <2>3. QED
    BY <1>1, <1>4, <2>2
<1> HIDE DEF Goal
<1>7. Goal
  BY <1>2, <1>3, <1>5, <1>6 DEF MCNext
<1>8. QED
  BY <1>7 DEF Goal

LEMMA ComposedStep == ComposedInv /\ [MCNext]_MCVars => ComposedInv'
<1> SUFFICES ASSUME ComposedInv, [MCNext]_MCVars PROVE ComposedInv'
  OBVIOUS
<1>1. /\ part \in Parts /\ part' = part
      /\ \A kind \in HeapParts : part = kind => [Heaps(kind)!Next]_(Heaps(kind)!vars)
      /\ part = "caches" => [Caches!Next]_(Caches!vars)
  BY PartsStep DEF ComposedInv
<1>2. ASSUME NEW kind \in HeapParts, part = kind
      PROVE  HeapInv(kind)'
  BY <1>1, <1>2, StoresAssumed, HeapStep DEF ComposedInv
<1>3. ASSUME part = Words
      PROVE  OverlapInv(Words)' /\ AlarmInv(Words)'
  <2>1. /\ Heaps(Words)!HeapAssumption /\ WholeWords(Words) /\ ~OwnStack(Words)
        /\ HeapInv(Words) /\ OverlapInv(Words) /\ AlarmInv(Words)
        /\ [Heaps(Words)!Next]_(Heaps(Words)!vars)
    BY <1>1, <1>3, StoresAssumed DEF ComposedInv
  <2>2. LimitIsEnd
    BY <2>1 DEF OverlapInv
  <2>3. QED
    BY <2>1, <2>2, OverlapStep, AlarmStep
<1>4. ASSUME part = "caches"
      PROVE  CacheInv'
  BY <1>1, <1>4, StoresAssumed, CacheStep DEF ComposedInv
<1>5. QED
  BY <1>1, <1>2, <1>3, <1>4 DEF ComposedInv

\* MemoryKept of the run (alt_sbrk.c, alt_exception_entry.S; alt_dcache_flush.c,
\* alt_uncached_malloc.c), for any sizes, limits, lines and regions: blocks are
\* apart, the stack stays off the heap when sizes are whole words, no store is
\* lost and no uncached block is cached.
THEOREM MemoryKeptHolds == MCSpec => []MemoryKept
<1>1. ComposedInv => MemoryKept
  <2> SUFFICES ASSUME ComposedInv PROVE MemoryKept
    OBVIOUS
  <2>1. ASSUME NEW kind \in HeapParts, part = kind
        PROVE  Heaps(kind)!BlocksApart
    BY <2>1, ApartInside DEF ComposedInv
  <2>2. part = Words => Heaps(Words)!NoOverlap /\ Heaps(Words)!NoFalseAlarm
    BY DEF ComposedInv, OverlapInv, AlarmInv
  <2>3. part = "caches" => Caches!NoStoreLost /\ Caches!UncachedStaysOut
    BY StoresAssumed, CachesSafe DEF ComposedInv
  <2>4. QED
    BY <2>1, <2>2, <2>3 DEF MemoryKept, Words
<1>2. QED
  BY <1>1, ComposedStarts, ComposedStep, PTL DEF MCSpec

\* CachesAgree of the run (alt_dcache_flush.c, alt_icache_flush.c, alt_load.c):
\* what is flushed is in memory and gone from the caches, and the instruction
\* cache is empty when alt_load is done.
THEOREM CachesAgreeHolds == MCSpec => CachesAgree
<1>1. ComposedInv /\ [MCNext]_MCVars => [part = "caches" => Caches!RegionFlushed]_MCVars
  BY StoresAssumed, FlushesRegion DEF ComposedInv
<1>2. ComposedInv /\ [MCNext]_MCVars
        => [Caches!FlushAllInstructions => icache' = Caches!Empty]_(Caches!vars)
  <2> SUFFICES ASSUME ComposedInv, [MCNext]_MCVars
               PROVE  [Caches!FlushAllInstructions => icache' = Caches!Empty]_(Caches!vars)
    OBVIOUS
  <2>1. CASE part = "caches"
    BY <2>1, StoresAssumed, FlushesInstructions DEF ComposedInv
  <2>2. CASE part # "caches"
    BY <2>2, PartsStep DEF ComposedInv
  <2>3. QED
    BY <2>1, <2>2
<1>3. QED
  BY <1>1, <1>2, ComposedStarts, ComposedStep, PTL DEF MCSpec, CachesAgree, Caches!InSynch

\* In the composition the descriptor table and the names behave as their own
\* specifications say.
LEMMA FilesBehave == MCSpec => Files!Spec /\ Names!Spec
<1>1. MCInit => Files!Init /\ Names!Init
  BY DEF MCInit
<1>2. [MCNext]_MCVars => [Files!Next]_(Files!vars) /\ [Names!Next]_(Names!vars)
  <2> SUFFICES ASSUME [MCNext]_MCVars
               PROVE  [Files!Next]_(Files!vars) /\ [Names!Next]_(Names!vars)
    OBVIOUS
  <2> DEFINE Goal == [Files!Next]_(Files!vars) /\ [Names!Next]_(Names!vars)
  <2>1. /\ "files" \in Parts /\ "names" \in Parts
        /\ "files" \notin HeapParts /\ "names" \notin HeapParts
    BY DEF Parts, HeapParts
  <2>2. Keeps("files") => UNCHANGED Files!vars
    BY DEF Keeps, HeapParts, fileVars, Files!vars
  <2>3. Keeps("names") => UNCHANGED Names!vars
    BY DEF Keeps, HeapParts, nameVars, Names!vars
  <2>4. ASSUME By("files", Files!Next) PROVE Goal
    BY <2>1, <2>3, <2>4 DEF By
  <2>5. ASSUME By("names", Names!Next /\ FewNames) PROVE Goal
    BY <2>1, <2>2, <2>5 DEF By
  <2>6. ASSUME NEW kind \in HeapParts, By(kind, Heaps(kind)!Next) PROVE Goal
    BY <2>1, <2>2, <2>3, <2>6 DEF By
  <2>7. ASSUME \/ By("calls", Calls!Next) \/ By("caches", Caches!Next)
               \/ By("counter", Counter!Next) \/ By("printf", Printf!Next)
               \/ By("router", Router!Next) \/ By("queue", Queue!Next)
        PROVE  Goal
    <3>1. {"calls", "caches", "counter", "printf", "router", "queue"} \cap HeapParts = {}
      BY DEF HeapParts
    <3>2. Keeps("files") /\ Keeps("names")
      BY <2>1, <2>7, <3>1 DEF By
    <3>3. QED
      BY <2>2, <2>3, <3>2
  <2>8. ASSUME UNCHANGED MCVars PROVE Goal
    BY <2>8 DEF MCVars, fileVars, nameVars, Files!vars, Names!vars
  <2>9. QED
    BY <2>4, <2>5, <2>6, <2>7, <2>8 DEF MCNext
<1>3. QED
  BY <1>1, <1>2, PTL DEF MCSpec, Files!Spec, Names!Spec

\* FilesKept of the run (alt_open.c, alt_get_fd.c, alt_fd_lock.c, alt_fcntl.c;
\* alt_find_dev.c, alt_find_file.c), for tables of any size, any number of
\* threads and devices, and any names.
THEOREM FilesKeptHolds == MCSpec => FilesKept
<1>1. Files!FileAssumption /\ Names!NamesAssumption
  BY StoresAssumption DEF StoresAssumption
<1>2. Files!Spec => []Files!HighWater
  <2>1. IInv => Files!HighWater
    BY DEF IInv
  <2>2. QED
    BY <1>1, <2>1, Invariance, PTL
<1>3. Files!Spec => [](Files!NoneLost /\ Files!AccessKept)
  BY <1>1, SlotsKept
<1>4. Files!Spec => Files!LockedOut
  BY <1>1, LocksRespected
<1>5. Names!Spec => Names!DeviceByItsName /\ Names!FileByItsDirectory
  BY <1>1, NamesFound
<1>6. Files!HighWater /\ Files!NoneLost /\ Files!AccessKept
        => (part = "files" => Files!HighWater /\ Files!NoneLost /\ Files!AccessKept)
  OBVIOUS
<1>7. QED
  BY <1>2, <1>3, <1>4, <1>5, <1>6, FilesBehave, PTL DEF FilesKept

\* So do the system calls, the counter, printf, the router and the queue.
LEMMA OthersBehave ==
  MCSpec => Calls!Spec /\ Counter!Spec /\ Printf!Spec /\ Router!Spec /\ Queue!Spec
<1> DEFINE Goal == /\ [Calls!Next]_(Calls!vars) /\ [Counter!Next]_(Counter!vars)
                   /\ [Printf!Next]_(Printf!vars) /\ [Router!Next]_(Router!vars)
                   /\ [Queue!Next]_(Queue!vars)
<1>1. MCInit => Calls!Init /\ Counter!Init /\ Printf!Init /\ Router!Init /\ Queue!Init
  BY DEF MCInit
<1>2. [MCNext]_MCVars => Goal
  <2> SUFFICES ASSUME [MCNext]_MCVars PROVE Goal
    OBVIOUS
  <2> DEFINE Five == {"calls", "counter", "printf", "router", "queue"}
  <2>1. Five \subseteq Parts /\ Five \cap HeapParts = {}
    BY DEF Parts, HeapParts
  <2>2. /\ Keeps("calls") => UNCHANGED Calls!vars
        /\ Keeps("counter") => UNCHANGED Counter!vars
        /\ Keeps("printf") => UNCHANGED Printf!vars
        /\ Keeps("router") => UNCHANGED Router!vars
        /\ Keeps("queue") => UNCHANGED Queue!vars
    <3>1. Keeps("calls") => UNCHANGED Calls!vars
      BY DEF Keeps, HeapParts, callVars, Calls!vars
    <3>2. Keeps("counter") => UNCHANGED Counter!vars
      BY DEF Keeps, HeapParts, counterVars, Counter!vars
    <3>3. Keeps("printf") => UNCHANGED Printf!vars
      BY DEF Keeps, HeapParts, printfVars, Printf!vars
    <3>4. Keeps("router") => UNCHANGED Router!vars
      BY DEF Keeps, HeapParts, routerVars, Router!vars
    <3>5. Keeps("queue") => UNCHANGED Queue!vars
      BY DEF Keeps, HeapParts, queueVars, Queue!vars
    <3> QED BY <3>1, <3>2, <3>3, <3>4, <3>5
  <2>3. ASSUME By("calls", Calls!Next) PROVE Goal
    <3>1. \A q \in Five \ {"calls"} : Keeps(q)
      BY <2>1, <2>3 DEF By
    <3> QED BY <2>2, <2>3, <3>1 DEF By
  <2>4. ASSUME By("counter", Counter!Next) PROVE Goal
    <3>1. \A q \in Five \ {"counter"} : Keeps(q)
      BY <2>1, <2>4 DEF By
    <3> QED BY <2>2, <2>4, <3>1 DEF By
  <2>5. ASSUME By("printf", Printf!Next) PROVE Goal
    <3>1. \A q \in Five \ {"printf"} : Keeps(q)
      BY <2>1, <2>5 DEF By
    <3> QED BY <2>2, <2>5, <3>1 DEF By
  <2>6. ASSUME By("router", Router!Next) PROVE Goal
    <3>1. \A q \in Five \ {"router"} : Keeps(q)
      BY <2>1, <2>6 DEF By
    <3> QED BY <2>2, <2>6, <3>1 DEF By
  <2>7. ASSUME By("queue", Queue!Next) PROVE Goal
    <3>1. \A q \in Five \ {"queue"} : Keeps(q)
      BY <2>1, <2>7 DEF By
    <3> QED BY <2>2, <2>7, <3>1 DEF By
  <2>8. ASSUME \/ By("files", Files!Next) \/ By("names", Names!Next /\ FewNames)
               \/ \E kind \in HeapParts : By(kind, Heaps(kind)!Next)
               \/ By("caches", Caches!Next)
        PROVE  Goal
    <3>1. ASSUME NEW kind \in HeapParts, By(kind, Heaps(kind)!Next) PROVE Goal
      <4>1. \A q \in Five : Keeps(q)
        BY <2>1, <3>1 DEF By
      <4> QED BY <2>2, <4>1
    <3>2. ASSUME \/ By("files", Files!Next) \/ By("names", Names!Next /\ FewNames)
                 \/ By("caches", Caches!Next)
          PROVE  Goal
      <4>1. {"files", "names", "caches"} \cap (HeapParts \cup Five) = {}
        BY DEF HeapParts
      <4>2. \A q \in Five : Keeps(q)
        BY <2>1, <3>2, <4>1 DEF By
      <4> QED BY <2>2, <4>2
    <3> QED BY <2>8, <3>1, <3>2
  <2>9. ASSUME UNCHANGED MCVars PROVE Goal
    <3>1. UNCHANGED <<callVars, counterVars, printfVars, routerVars, queueVars>>
      BY <2>9 DEF MCVars
    <3>2. UNCHANGED Calls!vars /\ UNCHANGED Counter!vars
      BY <3>1 DEF callVars, counterVars, Calls!vars, Counter!vars
    <3>3. UNCHANGED Printf!vars
      BY <3>1 DEF printfVars, Printf!vars
    <3>4. UNCHANGED Router!vars
      BY <3>1 DEF routerVars, Router!vars
    <3>5. UNCHANGED Queue!vars
      BY <3>1 DEF queueVars, Queue!vars
    <3> QED BY <3>2, <3>3, <3>4, <3>5
  <2> HIDE DEF Goal
  <2> QED BY <2>3, <2>4, <2>5, <2>6, <2>7, <2>8, <2>9 DEF MCNext
<1>3. QED
  BY <1>1, <1>2, PTL DEF MCSpec, Calls!Spec, Counter!Spec, Printf!Spec, Router!Spec, Queue!Spec

\* WorkloadsCorrect of the run (dtn.c, lib/queue.c), for a net of any size
\* with any costs of its links, and arrays of any even length (of a path: with a
\* place for each level): routes are the greedy ones and cost the sum of their
\* hops, and the queue keeps its pairs in order up to the end of its array.  Both
\* may pass their arrays' ends, the route only if it waited, the queue only if it
\* lost a pair; what runs after that is not modelled.
THEOREM WorkloadsCorrectHolds == MCSpec => WorkloadsCorrect
<1>1. Router!DtnAssumption /\ Queue!QueueAssumption
  BY OthersAssumption DEF OthersAssumption
<1>2. Router!Spec => /\ [](/\ Router!StartsInFirstLevel /\ Router!NeverBackwards
                           /\ Router!CostOfPath /\ Router!OverrunsOnlyWaiting)
                     /\ Router!ForwardFirst
  BY <1>1, RoutesRight, PTL
<1>3. Queue!Spec => [](Queue!InOrder /\ Queue!FindsItem /\ Queue!OverrunsAfterDequeue)
  BY <1>1, PairsKept, PTL
<1>4. QED
  BY <1>2, <1>3, OthersBehave, PTL DEF WorkloadsCorrect

\* The type invariant of the run, for every part: among it that a descriptor in
\* the table stays a descriptor, the heap and the stack in their region, the
\* lines of the caches in memory, the fields of a conversion as wide as the format
\* is long, and the queue's size that of its window until first is overwritten.
\* The queue's last and the length of a path may pass the ends of their arrays, by
\* a pair and by an entry.
THEOREM StoresTypeCorrect == MCSpec => []TypeOK
<1>1. /\ Files!FileAssumption /\ Calls!CallsAssumption /\ Names!NamesAssumption
      /\ Counter!PerfAssumption /\ Printf!LogPrintfAssumption
      /\ Router!DtnAssumption /\ Queue!QueueAssumption
  BY StoresAssumption, OthersAssumption DEF StoresAssumption, OthersAssumption
<1>2. IInv => Files!TypeOK
  <2> SUFFICES ASSUME IInv PROVE Files!TypeOK
    OBVIOUS
  <2>1. Typed
    BY DEF IInv
  <2>2. \A t \in Thread : call[t] # Files!NoCall => call[t].fd \in Files!Fd
    <3>1. \A t \in Thread : call[t] \in CallKind
      BY <2>1 DEF Typed
    <3>2. \A k \in CallKind : k # Files!NoCall => k.fd \in Files!Fd
      BY DEF CallKind
    <3> QED BY <3>1, <3>2
  <2> QED BY <2>1, <2>2 DEF Typed, Files!TypeOK
<1>3. MCSpec => []Files!TypeOK
  BY <1>1, <1>2, Invariance, FilesBehave, PTL
<1>4. MCSpec => []Names!TypeOK
  BY <1>1, NamesTypeCorrect, FilesBehave, PTL
<1>5. MCSpec => [](Calls!TypeOK /\ Counter!TypeOK)
  BY <1>1, CallsTell, CounterRight, OthersBehave, PTL
<1>6. MCSpec => [](Printf!TypeOK /\ Router!TypeOK /\ Queue!TypeOK)
  BY <1>1, PrintfTypeCorrect, RoutesRight, PairsKept, OthersBehave, PTL
<1>7. MCSpec => []ComposedInv
  BY ComposedStarts, ComposedStep, PTL DEF MCSpec
<1>8. ASSUME ComposedInv, Files!TypeOK, Names!TypeOK, Calls!TypeOK, Counter!TypeOK,
             Printf!TypeOK, Router!TypeOK, Queue!TypeOK
      PROVE  TypeOK
  <2>1. part \in Parts
    BY <1>8 DEF ComposedInv
  <2>2. part \in HeapParts => Heaps("heap")!TypeOK
    BY <1>8 DEF ComposedInv, HeapInv, Heaps!TypeOK
  <2>3. part = "caches" => Caches!TypeOK
    BY <1>8, StoresAssumed, CachesSafe DEF ComposedInv
  <2>4. CASE part \in HeapParts
    BY <2>2, <2>4 DEF TypeOK, HeapParts
  <2>5. CASE part = "caches"
    BY <2>3, <2>5 DEF TypeOK, HeapParts
  <2>6. CASE part \in {"files", "calls", "names", "counter", "printf", "router", "queue"}
    BY <1>8, <2>6 DEF TypeOK, HeapParts
  <2> QED BY <2>1, <2>4, <2>5, <2>6 DEF Parts
<1> QED BY <1>3, <1>4, <1>5, <1>6, <1>7, <1>8, PTL
=============================================================================
