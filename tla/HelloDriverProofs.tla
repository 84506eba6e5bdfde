------------------------- MODULE HelloDriverProofs -------------------------
(***************************************************************************)
(* Proofs of the safety properties of HelloDriver for any set of tasks,    *)
(* any buffer length and any set of failing calls.                         *)
(*                                                                         *)
(* The inductive invariant IInv says, step by step of the loader, what is  *)
(* held (HeldAt), that nobody has a file before cdev_add or after rmmod    *)
(* (NobodyIn), and that whoever is inside an ioctl owns the mutex unless   *)
(* mutex_init came too late (OwnerInside).                                 *)
(***************************************************************************)
EXTENDS HelloDriver, TLAPS

\* What the module holds at each step of its life.
HeldAt ==
  /\ loader = "unloaded" => held = {}
  /\ loader = "region" => held = {"mem"}
  /\ loader = "cdev" => held = {"mem", "region"}
  /\ loader = "class" => held = {"mem", "region", "cdev"}
  /\ loader = "nodes" => held = {"mem", "region", "cdev", "class"}
  /\ loader \in {"mutex", "live", "exit_nodes"} => held = Resources
  /\ loader = "exit_class" => held = {"mem", "region", "cdev", "class"}
  /\ loader = "exit_cdev" => held = {"mem", "region", "cdev"}
  /\ loader = "exit_region" => held = {"mem", "region"}
  /\ loader \in {"exit_mem", "err_mem"} => held = {"mem"}
  /\ loader \in ErrSteps => err # "none"
  /\ loader = "err_cdev" =>
       /\ err = "region" => held = {"mem"}
       /\ err = "cdev" => held = {"mem", "region"}
       /\ err = "class" => held = {"mem", "region", "cdev"}
  /\ loader = "err_region" =>
       held = IF err = "region" THEN {"mem"} ELSE {"mem", "region"}

\* Something never acquired is released only by the cdev_del that follows a
\* failed alloc_chrdev_region.
PhantomAt ==
  phantom => err = "region" /\ loader \in {"err_region", "err_mem", "unloaded"}

\* No file of this struct is open while the loader is at these steps.
NobodyIn ==
  \/ loader \in {"unloaded", "region", "cdev"} \cup ExitSteps
  \/ loader \in ErrSteps /\ err # "class"
  => opened \subseteq stale

\* Whoever is inside owns the mutex.
OwnerInside == ~raced => \A t \in Tasks : Inside(t) => lock = t

\* With no open before hello_init is done, files exist only while it is live,
\* and the mutex is free until then.
QuietAt ==
  ~EarlyOpen =>
    /\ stale = {} /\ ~raced /\ oops \in {"none", "kmalloc"}
    /\ loader # "live" => opened = {}
    /\ loader = "live" => ready
    /\ loader \in InitSteps => lock = NoTask

IInv ==
  /\ TypeOK
  /\ HeldAt
  /\ PhantomAt
  /\ NobodyIn
  /\ OwnerInside
  /\ OnlyARejectedCallKeepsTheLock
  /\ QuietAt

-----------------------------------------------------------------------------
\* What copy_to_user delivers is a string of at most BufLen bytes.
LEMMA PrefixType ==
  ASSUME TypeOK
  PROVE  Prefix(data, len) \in Payloads
<1>1. len \in 0 .. BufLen /\ data \in [1 .. BufLen -> Bytes]
  BY DEF TypeOK
<1>2. Prefix(data, len) \in [1 .. len -> Bytes]
  BY <1>1, HelloAssumption DEF Prefix
<1> QED
  BY <1>1, <1>2 DEF Payloads

\* The empty string is one of them.
LEMMA EmptyType ==
  <<>> \in Payloads
<1>1. <<>> \in [1 .. 0 -> Bytes]
  OBVIOUS
<1>2. 0 \in 0 .. BufLen
  BY HelloAssumption
<1> QED
  BY <1>1, <1>2 DEF Payloads

\* Every request of the model fits the buffer and brings a byte or a fault.
LEMMA RequestType ==
  ASSUME NEW r \in Request
  PROVE  r.len \in 0 .. BufLen /\ r.byte \in Bytes \cup {Fault}
BY HelloAssumption DEF Request, Requests, NoRequest

\* Every variable keeps to its type over a step of insmod or rmmod.
LEMMA LoaderType ==
  ASSUME TypeOK, Loader
  PROVE  TypeOK'
<1> USE DEF loaderVars, pipeVars, taskVars, Resources, InitSteps, ErrSteps, ExitSteps
<1>1. CASE InitMalloc
  <2>1. CASE oops' = "kmalloc" /\ UNCHANGED <<loaderVars, pipeVars, raced>>
    BY <1>1, <2>1 DEF InitMalloc, TypeOK
  <2>2. CASE ~(oops' = "kmalloc" /\ UNCHANGED <<loaderVars, pipeVars, raced>>)
    <3>1. /\ UNCHANGED <<pc, req, reply, stale, oops>>
          /\ loader' = "region" /\ err' = "none" /\ held' = {"mem"}
          /\ phantom' = FALSE /\ ready' = FALSE /\ raced' = FALSE
          /\ lock' = NoTask /\ len' = 0
          /\ data' = [i \in 1 .. BufLen |-> Zero]
      BY <1>1, <2>2 DEF InitMalloc
    <3>2. 0 \in 0 .. BufLen /\ data' \in [1 .. BufLen -> Bytes]
      BY <3>1, HelloAssumption
    <3> QED
      BY <3>1, <3>2 DEF TypeOK
  <2> QED
    BY <2>1, <2>2
<1>2. ASSUME NEW s, NEW n, InitAcquire(s, n),
             s \in {"region", "cdev", "class"}, n \in InitSteps
      PROVE  TypeOK'
  <2>1. /\ UNCHANGED <<phantom, ready, lock, len, data, pc, req, reply, stale, oops, raced>>
        /\ held' \subseteq Resources
        /\ loader' \in InitSteps \cup ErrSteps
        /\ err' \in {"none", "region", "cdev", "class"}
    BY <1>2 DEF InitAcquire, TypeOK
  <2> QED
    BY <2>1 DEF TypeOK
<1>3. CASE InitNodes
  BY <1>3 DEF InitNodes, TypeOK
<1>4. CASE InitMutex
  BY <1>4 DEF InitMutex, TypeOK
<1>5. ASSUME NEW s, NEW r, NEW n, ErrRelease(s, r, n), n \in ErrSteps
      PROVE  TypeOK'
  BY <1>5 DEF ErrRelease, TypeOK
<1>6. ASSUME NEW s, Free(s)
      PROVE  TypeOK'
  BY <1>6 DEF Free, TypeOK, opened
<1>7. CASE Rmmod
  BY <1>7 DEF Rmmod, TypeOK
<1>8. ASSUME NEW s, NEW r, NEW n, ExitRelease(s, r, n), n \in ExitSteps
      PROVE  TypeOK'
  BY <1>8 DEF ExitRelease, TypeOK
<1> QED
  BY <1>1, <1>2, <1>3, <1>4, <1>5, <1>6, <1>7, <1>8 DEF Loader

\* Every variable keeps to its type over a step of a task.
LEMMA TaskType ==
  ASSUME TypeOK, NEW t \in Tasks, Task(t)
  PROVE  TypeOK'
<1> USE DEF loaderVars, pipeVars, taskVars, Step, Body
<1>e. /\ req[t] \in Request /\ req[t].len \in 0 .. BufLen
      /\ req[t].byte \in Bytes \cup {Fault}
  BY RequestType DEF TypeOK
<1>1. CASE Open(t) \/ Release(t)
  BY <1>1 DEF Open, Release, TypeOK
<1>2. CASE Ioctl(t)
  BY <1>2 DEF Ioctl, TypeOK, Request
<1>3. CASE Lock(t) \/ Unlock(t)
  BY <1>3 DEF Lock, Unlock, TypeOK
<1>4. CASE LockUnready(t) \/ UseStale(t)
  BY <1>4 DEF LockUnready, UseStale, TypeOK
<1>5. CASE Reject(t) \/ Undefined(t)
  <2>1. PICK v \in {0, ENOTTY} : reply' = [reply EXCEPT ![t] = [ret |-> v, data |-> <<>>]]
    BY <1>5 DEF Reject, Undefined
  <2>2. [ret |-> v, data |-> <<>>] \in Reply
    BY EmptyType, HelloAssumption DEF Reply
  <2>3. reply' \in [Tasks -> Reply]
    BY <2>1, <2>2 DEF TypeOK
  <2> QED
    BY <1>5, <2>3 DEF Reject, Undefined, TypeOK
<1>6. CASE ReadCopy(t)
  <2> DEFINE out == IF req[t].byte = Fault THEN <<>> ELSE Prefix(data, len)
  <2>1. out \in Payloads
    BY EmptyType, PrefixType
  <2>2. reply' = [reply EXCEPT ![t].data = out]
    BY <1>6 DEF ReadCopy
  <2> HIDE DEF out
  <2>3. reply' \in [Tasks -> Reply]
    BY <2>1, <2>2 DEF TypeOK, Reply
  <2> QED
    BY <1>6, <2>3 DEF ReadCopy, TypeOK
<1>7. CASE ReadRet(t)
  <2> DEFINE new == [reply[t] EXCEPT !.ret = len]
  <2>1. reply[t] \in Reply /\ len \in 0 .. BufLen
    BY DEF TypeOK
  <2>2. new \in Reply
    BY <2>1 DEF Reply
  <2>3. reply' = [reply EXCEPT ![t] = new]
    BY <1>7 DEF ReadRet
  <2> HIDE DEF new
  <2>4. reply' \in [Tasks -> Reply]
    BY <2>2, <2>3 DEF TypeOK
  <2> QED
    BY <1>7, <2>4 DEF ReadRet, TypeOK
<1>8. CASE WriteLen(t)
  <2>1. len' \in 0 .. BufLen
    BY <1>8, <1>e DEF WriteLen
  <2> QED
    BY <1>8, <2>1 DEF WriteLen, TypeOK
<1>9. CASE WriteData(t)
  <2>1. [ret |-> len, data |-> <<>>] \in Reply
    BY EmptyType DEF Reply, TypeOK
  <2>2. reply' \in [Tasks -> Reply]
    BY <1>9, <2>1 DEF WriteData, TypeOK
  <2>3. data' \in [1 .. BufLen -> Bytes]
    BY <1>9, <1>e, HelloAssumption DEF WriteData, TypeOK, Stored
  <2> QED
    BY <1>9, <2>2, <2>3 DEF WriteData, TypeOK
<1> QED
  BY <1>1, <1>2, <1>3, <1>4, <1>5, <1>6, <1>7, <1>8, <1>9 DEF Task

\* Init and every step keep the types.
LEMMA InitType == Init => TypeOK
<1> SUFFICES ASSUME Init PROVE TypeOK
  OBVIOUS
<1>1. 0 \in 0 .. BufLen /\ data \in [1 .. BufLen -> Bytes]
  BY HelloAssumption DEF Init
<1>2. [ret |-> 0, data |-> <<>>] \in Reply /\ NoRequest \in Request
  BY <1>1, EmptyType DEF Reply, Request
<1>3. reply \in [Tasks -> Reply] /\ req \in [Tasks -> Request]
  BY <1>2 DEF Init
<1> QED
  BY <1>1, <1>3 DEF Init, TypeOK

LEMMA NextType == TypeOK /\ [Next]_vars => TypeOK'
<1>1. ASSUME TypeOK, UNCHANGED vars
      PROVE  TypeOK'
  BY <1>1 DEF TypeOK, vars, loaderVars, pipeVars, taskVars
<1> QED
  BY <1>1, LoaderType, TaskType DEF Next

\* The reply to every ioctl stays inside the buffer, whatever the tasks do
\* and whichever call of hello_init fails.
THEOREM TypeCorrect == Spec => []TypeOK
BY InitType, NextType, PTL DEF Spec

-----------------------------------------------------------------------------
\* The loader releases exactly what it acquired, in the one order the labels
\* of hello_init and the lines of hello_exit give.
LEMMA LoaderHolds ==
  ASSUME TypeOK, HeldAt, PhantomAt, Loader
  PROVE  HeldAt' /\ PhantomAt'
<1> USE DEF HeldAt, PhantomAt, Resources, InitSteps, ErrSteps, ExitSteps
<1>1. CASE InitMalloc
  BY <1>1 DEF InitMalloc, loaderVars
<1>2. CASE InitAcquire("region", "cdev") \/ InitAcquire("cdev", "class")
           \/ InitAcquire("class", "nodes")
  BY <1>2 DEF InitAcquire
<1>3. CASE InitNodes \/ InitMutex
  BY <1>3 DEF InitNodes, InitMutex
<1>4. CASE ErrRelease("err_cdev", "cdev", "err_region")
  BY <1>4 DEF ErrRelease, TypeOK
<1>5. CASE ErrRelease("err_region", "region", "err_mem")
  BY <1>5 DEF ErrRelease, TypeOK
<1>6. CASE Free("err_mem") \/ Free("exit_mem")
  BY <1>6 DEF Free
<1>7. CASE Rmmod
  BY <1>7 DEF Rmmod
<1>8. CASE \/ ExitRelease("exit_nodes", "nodes", "exit_class")
           \/ ExitRelease("exit_class", "class", "exit_cdev")
           \/ ExitRelease("exit_cdev", "cdev", "exit_region")
           \/ ExitRelease("exit_region", "region", "exit_mem")
  BY <1>8 DEF ExitRelease
<1> QED
  BY <1>1, <1>2, <1>3, <1>4, <1>5, <1>6, <1>7, <1>8 DEF Loader

\* Before cdev_add and after rmmod nobody has a live file; only the error
\* path after a failed class_create frees the struct under one.
LEMMA LoaderStrands ==
  ASSUME TypeOK, NobodyIn, Loader
  PROVE  NobodyIn' /\ (stale' # stale => err = "class")
<1> USE DEF NobodyIn, opened, InitSteps, ErrSteps, ExitSteps, taskVars, loaderVars, pipeVars
<1>1. CASE InitMalloc
  BY <1>1 DEF InitMalloc
<1>2. CASE InitAcquire("region", "cdev") \/ InitAcquire("cdev", "class")
           \/ InitAcquire("class", "nodes")
  BY <1>2 DEF InitAcquire
<1>3. CASE InitNodes \/ InitMutex
  BY <1>3 DEF InitNodes, InitMutex
<1>4. ASSUME NEW s \in ErrSteps, NEW r, NEW n \in ErrSteps, ErrRelease(s, r, n)
      PROVE  NobodyIn' /\ stale' = stale
  BY <1>4 DEF ErrRelease
<1>5. CASE Free("err_mem") \/ Free("exit_mem")
  <2>1. err # "class" \/ loader = "exit_mem" => opened \subseteq stale
    BY <1>5 DEF Free
  <2>2. stale' = stale \cup opened /\ opened' = opened
    BY <1>5 DEF Free
  <2>3. loader = "exit_mem" => stale' = stale
    BY <2>1, <2>2
  <2> QED
    BY <1>5, <2>1, <2>2 DEF Free
<1>6. CASE Rmmod
  BY <1>6 DEF Rmmod
<1>7. ASSUME NEW s \in ExitSteps, NEW r, NEW n \in ExitSteps, ExitRelease(s, r, n)
      PROVE  NobodyIn' /\ stale' = stale
  BY <1>7 DEF ExitRelease
<1> QED
  BY <1>1, <1>2, <1>3, <1>4, <1>5, <1>6, <1>7 DEF Loader

\* A task opens a file only where NobodyIn says nothing.
LEMMA TaskStrands ==
  ASSUME TypeOK, HeldAt, NobodyIn, NEW t \in Tasks, Task(t)
  PROVE  NobodyIn' /\ UNCHANGED <<loaderVars, stale>>
<1> USE DEF NobodyIn, opened, Step, loaderVars, pipeVars, taskVars
<1>1. CASE Open(t)
  <2>1. loader \notin {"unloaded", "region", "cdev"} \cup ExitSteps
    BY <1>1 DEF Open, HeldAt
  <2>2. loader \in ErrSteps => err = "class"
    BY <1>1 DEF Open, HeldAt, TypeOK, ErrSteps
  <2> QED
    BY <1>1, <2>1, <2>2 DEF Open
<1>2. CASE Release(t)
  BY <1>2 DEF Release, TypeOK
<1>3. CASE Ioctl(t) \/ Lock(t) \/ Unlock(t)
  BY <1>3 DEF Ioctl, Lock, Unlock, TypeOK
<1>4. CASE LockUnready(t) \/ UseStale(t)
  BY <1>4 DEF LockUnready, UseStale
<1>5. CASE Reject(t) \/ ReadCopy(t) \/ ReadRet(t)
  BY <1>5 DEF Reject, ReadCopy, ReadRet, TypeOK
<1>6. CASE WriteLen(t) \/ WriteData(t) \/ Undefined(t)
  BY <1>6 DEF WriteLen, WriteData, Undefined, TypeOK
<1> QED
  BY <1>1, <1>2, <1>3, <1>4, <1>5, <1>6 DEF Task

\* The loader touches the mutex in InitMalloc, when no live file exists, and
\* in InitMutex, which records that it took the mutex from somebody.
LEMMA LoaderOwner ==
  ASSUME TypeOK, NobodyIn, OwnerInside, OnlyARejectedCallKeepsTheLock, Loader
  PROVE  OwnerInside' /\ OnlyARejectedCallKeepsTheLock'
<1> USE DEF OwnerInside, OnlyARejectedCallKeepsTheLock, Inside, Body, taskVars, pipeVars, loaderVars
<1>1. CASE InitMalloc
  <2>1. opened \subseteq stale /\ UNCHANGED <<pc, stale, reply>>
    BY <1>1 DEF InitMalloc, NobodyIn
  <2>2. \A t \in Tasks : ~Inside(t)
    BY <2>1 DEF opened
  <2> QED
    BY <1>1, <2>1, <2>2 DEF InitMalloc
<1>2. CASE InitMutex
  BY <1>2 DEF InitMutex, TypeOK
<1>3. ASSUME UNCHANGED <<lock, raced, pc, reply>>, stale \subseteq stale'
      PROVE  OwnerInside' /\ OnlyARejectedCallKeepsTheLock'
  BY <1>3
<1>4. CASE \/ InitAcquire("region", "cdev")
           \/ InitAcquire("cdev", "class")
           \/ InitAcquire("class", "nodes")
           \/ InitNodes
  BY <1>3, <1>4 DEF InitAcquire, InitNodes
<1>5. CASE \/ ErrRelease("err_cdev", "cdev", "err_region")
           \/ ErrRelease("err_region", "region", "err_mem")
           \/ Free("err_mem") \/ Free("exit_mem") \/ Rmmod
  BY <1>3, <1>5 DEF ErrRelease, Free, Rmmod
<1>6. CASE \/ ExitRelease("exit_nodes", "nodes", "exit_class")
           \/ ExitRelease("exit_class", "class", "exit_cdev")
           \/ ExitRelease("exit_cdev", "cdev", "exit_region")
           \/ ExitRelease("exit_region", "region", "exit_mem")
  BY <1>3, <1>6 DEF ExitRelease
<1> QED
  BY <1>1, <1>2, <1>4, <1>5, <1>6 DEF Loader

\* A task gets inside by taking a free mutex, and leaves it held only when it
\* is answered -ENOTTY.
LEMMA TaskOwner ==
  ASSUME TypeOK, OwnerInside, OnlyARejectedCallKeepsTheLock, NEW t \in Tasks, Task(t)
  PROVE  OwnerInside' /\ OnlyARejectedCallKeepsTheLock'
<1> USE DEF OwnerInside, OnlyARejectedCallKeepsTheLock, Inside, Body, Step,
            taskVars, pipeVars, loaderVars
<1>t. pc \in [Tasks -> {"closed", "open", "locking"} \cup Body] /\ reply \in [Tasks -> Reply]
  BY DEF TypeOK
<1>l. lock \in Tasks \cup {NoTask}
  BY DEF TypeOK
<1>1. CASE Open(t) \/ Release(t) \/ Ioctl(t)
  BY <1>1, <1>t, <1>l DEF Open, Release, Ioctl
<1>2. CASE Lock(t)
  BY <1>2, <1>t, <1>l, HelloAssumption DEF Lock
<1>3. CASE LockUnready(t) \/ UseStale(t)
  BY <1>3 DEF LockUnready, UseStale
<1>4. CASE Reject(t)
  BY <1>4, <1>t, <1>l DEF Reject
<1>5. CASE ReadCopy(t) \/ ReadRet(t)
  BY <1>5, <1>t, <1>l DEF ReadCopy, ReadRet
<1>6. CASE WriteLen(t) \/ WriteData(t) \/ Undefined(t)
  BY <1>6, <1>t, <1>l DEF WriteLen, WriteData, Undefined
<1>7. CASE Unlock(t)
  BY <1>7, <1>t, <1>l DEF Unlock
<1> QED
  BY <1>1, <1>2, <1>3, <1>4, <1>5, <1>6, <1>7 DEF Task

\* While no file can be opened early, the loader meets a free mutex, no open
\* file, and no fault but that of kmalloc.
LEMMA LoaderQuiet ==
  ASSUME TypeOK, QuietAt, Loader
  PROVE  QuietAt'
<1> USE DEF QuietAt, InitSteps, ErrSteps, ExitSteps, opened, taskVars, pipeVars, loaderVars
<1>1. CASE InitMalloc
  BY <1>1 DEF InitMalloc
<1>2. CASE InitAcquire("region", "cdev") \/ InitAcquire("cdev", "class")
           \/ InitAcquire("class", "nodes")
  BY <1>2 DEF InitAcquire
<1>3. CASE InitNodes \/ InitMutex
  BY <1>3 DEF InitNodes, InitMutex
<1>4. CASE \/ ErrRelease("err_cdev", "cdev", "err_region")
           \/ ErrRelease("err_region", "region", "err_mem")
  BY <1>4 DEF ErrRelease
<1>5. CASE Free("err_mem") \/ Free("exit_mem") \/ Rmmod
  BY <1>5 DEF Free, Rmmod
<1>6. CASE \/ ExitRelease("exit_nodes", "nodes", "exit_class")
           \/ ExitRelease("exit_class", "class", "exit_cdev")
           \/ ExitRelease("exit_cdev", "cdev", "exit_region")
           \/ ExitRelease("exit_region", "region", "exit_mem")
  BY <1>6 DEF ExitRelease
<1> QED
  BY <1>1, <1>2, <1>3, <1>4, <1>5, <1>6 DEF Loader

\* A task with a file then always meets a live driver with an initialised mutex.
LEMMA TaskQuiet ==
  ASSUME TypeOK, QuietAt, NEW t \in Tasks, Task(t)
  PROVE  QuietAt'
<1> USE DEF QuietAt, InitSteps, Step, opened, taskVars, pipeVars, loaderVars
<1>1. SUFFICES ASSUME ~EarlyOpen
      PROVE  QuietAt'
  OBVIOUS
<1>2. CASE Open(t)
  BY <1>1, <1>2 DEF Open
<1>3. CASE ~Open(t)
  <2>1. pc[t] # "closed"
    BY <1>1, <1>3 DEF Task, Release, Ioctl, Lock, LockUnready, Reject, ReadCopy, ReadRet,
                      WriteLen, WriteData, Undefined, Unlock, UseStale
  <2>2. loader = "live" /\ ready /\ stale = {}
    BY <1>1, <2>1
  <2>3. UNCHANGED <<loader, ready, stale, oops, raced>>
    BY <1>1, <1>3, <2>2 DEF Task, Release, Ioctl, Lock, LockUnready, Reject, ReadCopy, ReadRet,
                      WriteLen, WriteData, Undefined, Unlock, UseStale
  <2> QED
    BY <1>1, <2>2, <2>3
<1> QED
  BY <1>2, <1>3

-----------------------------------------------------------------------------
\* The invariant is inductive.
LEMMA InitIInv == Init => IInv
<1> SUFFICES ASSUME Init PROVE IInv
  OBVIOUS
<1>1. TypeOK
  BY InitType
<1>2. HeldAt /\ PhantomAt /\ NobodyIn
  BY DEF Init, HeldAt, PhantomAt, NobodyIn, opened, InitSteps, ErrSteps, ExitSteps
<1>3. OwnerInside /\ OnlyARejectedCallKeepsTheLock
  BY DEF Init, OwnerInside, OnlyARejectedCallKeepsTheLock, Inside, Body
<1>4. QuietAt
  BY DEF Init, QuietAt, opened, InitSteps
<1> QED
  BY <1>1, <1>2, <1>3, <1>4 DEF IInv

LEMMA NextIInv == IInv /\ [Next]_vars => IInv'
<1>1. ASSUME IInv, UNCHANGED vars
      PROVE  IInv'
  <2>1. HeldAt' /\ PhantomAt' /\ NobodyIn'
    BY <1>1 DEF IInv, HeldAt, PhantomAt, NobodyIn, opened, vars, loaderVars, taskVars
  <2>2. OwnerInside' /\ OnlyARejectedCallKeepsTheLock' /\ QuietAt'
    BY <1>1 DEF IInv, OwnerInside, OnlyARejectedCallKeepsTheLock, Inside, QuietAt, opened,
                vars, loaderVars, pipeVars, taskVars
  <2> QED
    BY <1>1, <2>1, <2>2, NextType DEF IInv
<1>2. ASSUME IInv, Loader
      PROVE  IInv'
  BY <1>2, LoaderType, LoaderHolds, LoaderStrands, LoaderOwner, LoaderQuiet DEF IInv
<1>3. ASSUME IInv, NEW t \in Tasks, Task(t)
      PROVE  IInv'
  <2>1. HeldAt' /\ PhantomAt'
    BY <1>3, TaskStrands DEF IInv, HeldAt, PhantomAt, loaderVars
  <2> QED
    BY <1>3, <2>1, TaskType, TaskStrands, TaskOwner, TaskQuiet DEF IInv
<1> QED
  BY <1>1, <1>2, <1>3 DEF Next

LEMMA Invariance == Spec => []IInv
BY InitIInv, NextIInv, PTL DEF Spec

\* However many tasks issue ioctls on the two nodes, and whatever fails or
\* races with hello_init, two of them are inside the mutex together only
\* after a mutex_init that overtook a holder.
THEOREM Exclusion == Spec => []MutualExclusion
<1>1. IInv => MutualExclusion
  BY DEF IInv, OwnerInside, MutualExclusion
<1> QED
  BY <1>1, Invariance, PTL

\* hello_init and hello_exit give back all they acquired, and release what
\* they never had only after a failed alloc_chrdev_region.
THEOREM CleanUnload == Spec => []UnloadedHoldsNothing
<1>1. IInv => UnloadedHoldsNothing
  BY DEF IInv, HeldAt, PhantomAt, UnloadedHoldsNothing
<1> QED
  BY <1>1, Invariance, PTL

\* The mutex is left held only by a call answered -ENOTTY.
THEOREM LockKept == Spec => []OnlyARejectedCallKeepsTheLock
<1>1. IInv => OnlyARejectedCallKeepsTheLock
  BY DEF IInv
<1> QED
  BY <1>1, Invariance, PTL

\* If nobody opens the device before hello_init is done, the kernel faults
\* only in the error path of a failed kmalloc.
THEOREM QuietLoad == Spec => []QuietLoadIsSafe
<1>1. IInv => QuietLoadIsSafe
  BY DEF IInv, QuietAt, QuietLoadIsSafe
<1> QED
  BY <1>1, Invariance, PTL

\* A file outlives its struct only through a failed class_create: rmmod
\* never frees the struct under an open file.
THEOREM Stranding == Spec => OnlyAFailedLoadStrandsFiles
<1>1. IInv /\ [Next]_vars => [stale' # stale => err = "class"]_vars
  <2>1. ASSUME IInv, Loader
        PROVE  stale' # stale => err = "class"
    BY <2>1, LoaderStrands DEF IInv
  <2>2. ASSUME IInv, NEW t \in Tasks, Task(t)
        PROVE  stale' = stale
    BY <2>2, TaskStrands DEF IInv
  <2> QED
    BY <2>1, <2>2 DEF Next
<1> QED
  BY <1>1, Invariance, PTL DEF Spec, OnlyAFailedLoadStrandsFiles

\* A mutex kept by a rejected call stays kept, and nobody enters, until the
\* struct is freed or mutex_init overwrites it.
THEOREM LeakLasts == Spec => ALeakLastsUntilUnload
<1> DEFINE A == Leaked /\ ~raced =>
                  \/ lock' = lock /\ \A t \in Tasks : Inside(t)' => Inside(t)
                  \/ loader \in {"unloaded", "mutex"}
<1>1. ASSUME IInv, Loader
      PROVE  A
  <2> USE DEF taskVars, pipeVars, loaderVars, Inside
  <2>1. CASE InitMalloc \/ InitMutex
    BY <2>1 DEF InitMalloc, InitMutex
  <2>2. CASE ~(InitMalloc \/ InitMutex)
    BY <1>1, <2>2 DEF Loader, InitAcquire, InitNodes, ErrRelease, Free, Rmmod, ExitRelease
  <2> QED
    BY <2>1, <2>2
<1>2. ASSUME IInv, NEW t \in Tasks, Task(t)
      PROVE  A
  <2> SUFFICES ASSUME Leaked, ~raced
               PROVE  lock' = lock /\ \A u \in Tasks : Inside(u)' => Inside(u)
    OBVIOUS
  <2>1. ~Inside(t) /\ lock # NoTask
    BY <1>2 DEF IInv, OwnerInside, Leaked, Inside
  <2>2. /\ t \in stale \/ pc[t] \notin Body
        /\ pc \in [Tasks -> {"closed", "open", "locking"} \cup Body]
    BY <1>2, <2>1 DEF IInv, TypeOK, Inside
  <2>3. CASE Open(t) \/ Release(t) \/ Ioctl(t)
    BY <2>2, <2>3 DEF Open, Release, Ioctl, Step, Inside, Body, pipeVars
  <2>4. CASE LockUnready(t) \/ UseStale(t)
    BY <2>4 DEF LockUnready, UseStale, Inside, pipeVars, taskVars
  <2>5. ~(Lock(t) \/ Reject(t) \/ ReadCopy(t) \/ ReadRet(t) \/ WriteLen(t)
          \/ WriteData(t) \/ Undefined(t) \/ Unlock(t))
    BY <2>1, <2>2 DEF Lock, Reject, ReadCopy, ReadRet, WriteLen, WriteData, Undefined, Unlock,
                      Step, Body
  <2> QED
    BY <1>2, <2>3, <2>4, <2>5 DEF Task
<1>3. IInv /\ [Next]_vars => [A]_vars
  BY <1>1, <1>2 DEF Next
<1> QED
  BY <1>3, Invariance, PTL DEF Spec, ALeakLastsUntilUnload

-----------------------------------------------------------------------------
(* The driver implements the store.  Below nobody opens the device early.  *)

\* While a writer copies its bytes the struct has the length it set.
WriteAt == ~EarlyOpen => \A t \in Tasks : pc[t] = "wdata" => len = req[t].len

\* With exclusion, nobody changes the length between len = and the copy.
LEMMA NextWriteAt == IInv /\ WriteAt /\ [Next]_vars => WriteAt'
<1> USE DEF WriteAt
<1>1. ASSUME IInv, WriteAt, UNCHANGED vars
      PROVE  WriteAt'
  BY <1>1 DEF vars, pipeVars, taskVars
<1>2. ASSUME IInv, WriteAt, Loader, ~EarlyOpen
      PROVE  WriteAt'
  <2> USE DEF loaderVars, pipeVars, taskVars
  <2>1. UNCHANGED <<pc, req>>
    BY <1>2 DEF Loader, InitMalloc, InitAcquire, InitNodes, InitMutex, ErrRelease, Free, Rmmod,
                ExitRelease
  <2>2. CASE InitMalloc
    <3>1. opened = {}
      BY <1>2, <2>2 DEF InitMalloc, IInv, QuietAt
    <3> QED
      BY <2>1, <3>1 DEF opened
  <2>3. CASE ~InitMalloc
    <3>1. len' = len
      BY <1>2, <2>3 DEF Loader, InitAcquire, InitNodes, InitMutex, ErrRelease, Free, Rmmod,
                        ExitRelease
    <3> QED
      BY <1>2, <2>1, <3>1
  <2> QED
    BY <2>2, <2>3
<1>3. ASSUME IInv, WriteAt, NEW t \in Tasks, Task(t), ~EarlyOpen
      PROVE  WriteAt'
  <2> USE DEF Step, loaderVars, pipeVars, taskVars
  <2>t. /\ pc \in [Tasks -> {"closed", "open", "locking"} \cup Body]
        /\ req \in [Tasks -> Request]
    BY <1>3 DEF IInv, TypeOK
  <2>1. CASE WriteLen(t)
    <3>1. \A u \in Tasks : u # t => pc[u] # "wdata"
      BY <1>3, <2>1 DEF WriteLen, IInv, QuietAt, OwnerInside, Inside, Body
    <3> QED
      BY <1>3, <2>1, <2>t, <3>1 DEF WriteLen
  <2>2. CASE Ioctl(t)
    BY <1>3, <2>2, <2>t DEF Ioctl
  <2>3. CASE Open(t) \/ Release(t) \/ Lock(t) \/ LockUnready(t) \/ Reject(t)
    BY <1>3, <2>3, <2>t DEF Open, Release, Lock, LockUnready, Reject
  <2>4. CASE ReadCopy(t) \/ ReadRet(t) \/ WriteData(t) \/ Undefined(t)
    BY <1>3, <2>4, <2>t DEF ReadCopy, ReadRet, WriteData, Undefined
  <2>5. CASE Unlock(t) \/ UseStale(t)
    BY <1>3, <2>5, <2>t DEF Unlock, UseStale
  <2> QED
    BY <1>3, <2>1, <2>2, <2>3, <2>4, <2>5 DEF Task
<1> QED
  BY <1>1, <1>2, <1>3 DEF Next

\* What the callers see of a live driver.
RequestBar == [t \in Tasks |-> Asked(req[t])]
ResultBar == [t \in Tasks |-> IF pc[t] = "wdata" THEN <<>> ELSE reply[t].data]

\* The message of the store is that of the writer under way, or what the
\* struct holds; without the struct there is none.
LEMMA StoreIs ==
  ASSUME IInv, ~EarlyOpen
  PROVE  /\ "mem" \notin held => StoreBar = <<>>
         /\ "mem" \in held =>
              /\ \A t \in Tasks : pc[t] = "wdata" => StoreBar = Message(req[t])
              /\ (\A t \in Tasks : pc[t] # "wdata") => StoreBar = Prefix(data, len)
<1>1. \A t, u \in Tasks : pc[t] = "wdata" /\ pc[u] = "wdata" => t = u
  BY DEF IInv, QuietAt, OwnerInside, Inside, Body
<1>2. ASSUME "mem" \in held, NEW t \in Tasks, pc[t] = "wdata"
      PROVE  StoreBar = Message(req[t])
  <2> DEFINE w == CHOOSE u \in Tasks : pc[u] = "wdata"
  <2>1. w \in Tasks /\ pc[w] = "wdata"
    BY <1>2
  <2>2. w = t
    BY <1>1, <1>2, <2>1
  <2>3. StoreBar = Message(req[w])
    BY <1>2 DEF StoreBar
  <2> QED
    BY <2>2, <2>3
<1> QED
  BY <1>2 DEF StoreBar

\* The same of the next state.
LEMMA StoreIsNext ==
  ASSUME IInv', ~EarlyOpen, "mem" \in held', NEW t \in Tasks, pc'[t] = "wdata"
  PROVE  StoreBar' = Message(req'[t])
<1> DEFINE w == CHOOSE u \in Tasks : pc'[u] = "wdata"
<1>1. w \in Tasks /\ pc'[w] = "wdata"
  OBVIOUS
<1>2. w = t
  BY <1>1 DEF IInv, QuietAt, OwnerInside, Inside, Body
<1>3. StoreBar' = Message(req'[w])
  BY DEF StoreBar, Message
<1> QED
  BY <1>2, <1>3

\* A step that touches neither the struct nor who is writing what leaves the
\* message alone.
LEMMA StoreStays ==
  ASSUME IInv, IInv', ~EarlyOpen, UNCHANGED <<data, len>>,
         "mem" \in held <=> "mem" \in held',
         \A t \in Tasks : pc'[t] = "wdata" <=> pc[t] = "wdata",
         \A t \in Tasks : pc[t] = "wdata" => req'[t] = req[t]
  PROVE  StoreBar' = StoreBar
<1>1. CASE "mem" \notin held
  BY <1>1 DEF StoreBar
<1>2. CASE "mem" \in held /\ \A t \in Tasks : pc[t] # "wdata"
  BY <1>2 DEF StoreBar, Prefix
<1>3. ASSUME "mem" \in held, NEW t \in Tasks, pc[t] = "wdata"
      PROVE  StoreBar' = StoreBar
  <2>1. StoreBar = Message(req[t])
    BY <1>3, StoreIs
  <2>2. \A u, v \in Tasks : pc'[u] = "wdata" /\ pc'[v] = "wdata" => u = v
    BY DEF IInv, QuietAt, OwnerInside, Inside, Body
  <2> DEFINE w == CHOOSE u \in Tasks : pc'[u] = "wdata"
  <2>3. w \in Tasks /\ pc'[w] = "wdata"
    BY <1>3
  <2>4. w = t
    BY <1>3, <2>2, <2>3
  <2>5. StoreBar' = Message(req'[w])
    BY <1>3 DEF StoreBar, Message
  <2> QED
    BY <1>3, <2>1, <2>4, <2>5 DEF Message
<1> QED
  BY <1>1, <1>2, <1>3

\* Nothing is under way when the loader is at work: its steps are stutters of
\* the store, but for kfree, which forgets the message.
LEMMA LoaderIsHidden ==
  ASSUME IInv, IInv', ~EarlyOpen, Loader
  PROVE  Store!Forget \/ UNCHANGED Store!vars
<1> USE DEF loaderVars, pipeVars, taskVars
<1>1. UNCHANGED <<pc, req, reply>>
  BY DEF Loader, InitMalloc, InitAcquire, InitNodes, InitMutex, ErrRelease, Free, Rmmod,
         ExitRelease
<1>2. UNCHANGED <<PhaseBar, RequestBar, ResultBar>>
  BY <1>1 DEF PhaseBar, RequestBar, ResultBar, Asked, Message
<1>3. CASE Free("err_mem") \/ Free("exit_mem")
  <2>1. opened = {}
    BY <1>3 DEF Free, IInv, QuietAt
  <2>2. StoreBar' = <<>>
    BY <1>3, StoreIs DEF Free, StoreBar
  <2>3. \A t \in Tasks : PhaseBar[t] = "idle"
    BY <2>1 DEF PhaseBar, opened
  <2> QED
    BY <1>2, <2>2, <2>3 DEF Store!Forget, RequestBar, ResultBar
<1>4. CASE InitMalloc
  <2>1. opened = {} /\ held = {} /\ (UNCHANGED <<held, len, data>> \/ (len' = 0))
    BY <1>4 DEF InitMalloc, IInv, QuietAt, HeldAt
  <2>2. \A t \in Tasks : pc'[t] # "wdata"
    BY <1>1, <2>1 DEF opened
  <2>3. StoreBar = <<>>
    BY <2>1, StoreIs
  <2>4. Prefix(data, len)' = <<>> \/ UNCHANGED <<held, len, data>>
    BY <2>1 DEF Prefix
  <2>5. StoreBar' = <<>>
    BY <2>1, <2>2, <2>4 DEF StoreBar
  <2> QED
    BY <1>2, <2>3, <2>5 DEF Store!vars, RequestBar, ResultBar
<1>5. CASE ~(InitMalloc \/ Free("err_mem") \/ Free("exit_mem"))
  <2>1. UNCHANGED <<len, data>> /\ ("mem" \in held <=> "mem" \in held')
    BY <1>5 DEF Loader, InitAcquire, InitNodes, InitMutex, ErrRelease, Rmmod, ExitRelease
  <2>2. StoreBar' = StoreBar
    BY <1>1, <2>1, StoreStays
  <2> QED
    BY <1>2, <2>2 DEF Store!vars, RequestBar, ResultBar
<1> QED
  BY <1>3, <1>4, <1>5

\* The steps of a task that its caller does not see.
LEMMA TaskIsHidden ==
  ASSUME IInv, IInv', WriteAt, ~EarlyOpen, NEW t \in Tasks,
         Open(t) \/ Release(t) \/ Lock(t) \/ ReadRet(t) \/ WriteData(t)
  PROVE  UNCHANGED Store!vars
<1> USE DEF Step, loaderVars, pipeVars, taskVars
<1>t. /\ pc \in [Tasks -> {"closed", "open", "locking"} \cup Body]
      /\ reply \in [Tasks -> Reply]
  BY DEF IInv, TypeOK
<1>1. UNCHANGED <<held, req>>
  BY DEF Open, Release, Lock, ReadRet, WriteData
<1>2. UNCHANGED <<PhaseBar, RequestBar>>
  BY <1>1, <1>t DEF Open, Release, Lock, ReadRet, WriteData, PhaseBar, RequestBar, Asked, Message
<1>3. CASE Open(t) \/ Release(t) \/ Lock(t)
  <2>1. UNCHANGED <<len, data, reply>> /\ \A u \in Tasks : pc'[u] = "wdata" <=> pc[u] = "wdata"
    BY <1>3, <1>t DEF Open, Release, Lock
  <2>2. StoreBar' = StoreBar
    BY <1>1, <2>1, StoreStays
  <2>3. ResultBar' = ResultBar
    BY <2>1 DEF ResultBar
  <2> QED
    BY <1>2, <2>2, <2>3 DEF Store!vars, RequestBar, ResultBar
<1>4. CASE ReadRet(t)
  <2>1. UNCHANGED <<len, data>> /\ \A u \in Tasks : pc'[u] = "wdata" <=> pc[u] = "wdata"
    BY <1>4, <1>t DEF ReadRet
  <2>2. StoreBar' = StoreBar
    BY <1>1, <2>1, StoreStays
  <2>3. \A u \in Tasks : reply'[u].data = reply[u].data
    BY <1>4, <1>t DEF ReadRet, Reply
  <2>4. ResultBar' = ResultBar
    BY <2>1, <2>3 DEF ResultBar
  <2> QED
    BY <1>2, <2>2, <2>4 DEF Store!vars, RequestBar, ResultBar
<1>5. CASE WriteData(t)
  <2>1. "mem" \in held
    BY <1>5 DEF WriteData, IInv, QuietAt, HeldAt, opened, Resources
  <2>2. StoreBar = Message(req[t])
    BY <1>5, <2>1, StoreIs DEF WriteData
  <2>3. len = req[t].len /\ len' = len /\ len \in 0 .. BufLen /\ BufLen \in Nat
    BY <1>5, HelloAssumption DEF WriteData, WriteAt, IInv, TypeOK
  <2>4. \A k \in 1 .. len : data'[k] = Stored(req[t].byte)
    BY <1>5, <2>3 DEF WriteData
  <2>5. Prefix(data, len)' = Message(req[t])
    BY <2>3, <2>4 DEF Prefix, Message
  <2>6. \A u \in Tasks : pc'[u] # "wdata"
    BY <1>5, <1>t DEF WriteData, IInv, QuietAt, OwnerInside, Inside, Body
  <2>7. StoreBar' = StoreBar
    BY <1>1, <2>1, <2>2, <2>5, <2>6 DEF StoreBar
  <2>8. \A u \in Tasks : ResultBar'[u] = ResultBar[u]
    BY <1>5, <1>t, <2>6 DEF WriteData, ResultBar
  <2> QED
    BY <1>2, <2>7, <2>8 DEF Store!vars, RequestBar, ResultBar
<1> QED
  BY <1>3, <1>4, <1>5

\* What each ioctl does in one visible step: it is asked, refused, takes its
\* effect under the mutex, and returns.
LEMMA TaskIsSeen ==
  ASSUME IInv, IInv', ~EarlyOpen, NEW t \in Tasks,
         \/ Ioctl(t) \/ Reject(t) \/ ReadCopy(t) \/ WriteLen(t)
         \/ Undefined(t) \/ Unlock(t)
  PROVE  Store!Next
<1> USE DEF Step, loaderVars, pipeVars, taskVars
<1>t. /\ pc \in [Tasks -> {"closed", "open", "locking"} \cup Body]
      /\ reply \in [Tasks -> Reply] /\ req \in [Tasks -> Request]
  BY DEF IInv, TypeOK
<1>h. "mem" \in held /\ held' = held /\ data' = data
  BY DEF Ioctl, Reject, ReadCopy, WriteLen, Undefined, Unlock, IInv, QuietAt, HeldAt, opened,
         Resources
<1>1. CASE Ioctl(t)
  <2>1. PICK r \in Requests : req' = [req EXCEPT ![t] = r]
    BY <1>1 DEF Ioctl
  <2>2. StoreBar' = StoreBar
    BY <1>1, <1>h, <1>t, StoreStays DEF Ioctl
  <2>3. PhaseBar[t] = "idle" /\ PhaseBar' = [PhaseBar EXCEPT ![t] = "called"]
    BY <1>1, <1>t DEF Ioctl, PhaseBar
  <2>4. RequestBar' = [RequestBar EXCEPT ![t] = Asked(r)]
    BY <1>t, <2>1 DEF RequestBar, Asked, Message
  <2>5. ResultBar' = ResultBar
    BY <1>1, <1>t DEF Ioctl, ResultBar
  <2>6. Store!Call(t)
    BY <2>2, <2>3, <2>4, <2>5 DEF Store!Call, RequestBar, ResultBar
  <2> QED
    BY <2>6 DEF Store!Next
<1>2. CASE Unlock(t)
  <2>1. StoreBar' = StoreBar
    BY <1>2, <1>h, <1>t, StoreStays DEF Unlock
  <2>2. PhaseBar[t] = "done" /\ PhaseBar' = [PhaseBar EXCEPT ![t] = "idle"]
    BY <1>2, <1>t DEF Unlock, PhaseBar
  <2>3. RequestBar' = RequestBar /\ ResultBar' = ResultBar
    BY <1>2, <1>t DEF Unlock, RequestBar, ResultBar, Asked, Message
  <2>4. Store!Return(t)
    BY <2>1, <2>2, <2>3 DEF Store!Return, RequestBar, ResultBar
  <2> QED
    BY <2>4 DEF Store!Next
<1>3. CASE Reject(t) \/ ReadCopy(t) \/ WriteLen(t) \/ Undefined(t)
  <2>1. /\ pc[t] = "check" /\ UNCHANGED req
        /\ PhaseBar[t] = "called" /\ RequestBar' = RequestBar
    BY <1>3 DEF Reject, ReadCopy, WriteLen, Undefined, PhaseBar, RequestBar, Asked, Message
  <2>2. \A u \in Tasks : pc[u] # "wdata"
    BY <2>1 DEF IInv, QuietAt, OwnerInside, Inside, Body
  <2>3. StoreBar = Prefix(data, len)
    BY <1>h, <2>2, StoreIs
  <2>4. CASE Reject(t)
    <3>1. StoreBar' = StoreBar
      BY <1>h, <1>t, <2>4, StoreStays DEF Reject
    <3>2. PhaseBar' = [PhaseBar EXCEPT ![t] = "idle"]
      BY <1>t, <2>4 DEF Reject, PhaseBar
    <3>3. ResultBar' = [ResultBar EXCEPT ![t] = <<>>]
      BY <1>t, <2>2, <2>4 DEF Reject, ResultBar
    <3>4. RequestBar[t].kind = "bad"
      BY <2>4 DEF Reject, RequestBar, Asked
    <3>5. Store!Refuse(t)
      BY <2>1, <3>1, <3>2, <3>3, <3>4 DEF Store!Refuse, RequestBar, ResultBar
    <3> QED
      BY <3>5 DEF Store!Next
  <2>5. CASE ~Reject(t)
    <3>1. PhaseBar' = [PhaseBar EXCEPT ![t] = "done"]
      BY <1>3, <1>t, <2>5 DEF ReadCopy, WriteLen, Undefined, PhaseBar
    <3>2. CASE ReadCopy(t)
      <4>1. StoreBar' = StoreBar
        BY <1>h, <1>t, <3>2, StoreStays DEF ReadCopy
      <4> DEFINE out == IF req[t].byte = Fault THEN <<>> ELSE StoreBar
      <4>2. reply'[t].data = out /\ \A u \in Tasks : u # t => reply'[u] = reply[u]
        BY <1>t, <2>3, <3>2 DEF ReadCopy, Reply
      <4>3. \A u \in Tasks : pc'[u] # "wdata"
        BY <1>t, <2>2, <3>2 DEF ReadCopy
      <4> HIDE DEF out
      <4>4. ResultBar' = [ResultBar EXCEPT ![t] = out]
        BY <2>2, <4>2, <4>3 DEF ResultBar
      <4>5. RequestBar[t].kind = IF req[t].byte = Fault THEN "blind" ELSE "read"
        BY <3>2 DEF ReadCopy, RequestBar, Asked
      <4>6. Store!Read(t) \/ Store!BlindRead(t)
        BY <2>1, <3>1, <4>1, <4>4, <4>5
        DEF Store!Read, Store!BlindRead, Store!Effect, RequestBar, ResultBar, out
      <4> QED
        BY <4>6 DEF Store!Next
    <3>3. CASE WriteLen(t)
      <4>1. pc'[t] = "wdata"
        BY <1>t, <3>3 DEF WriteLen
      <4>2. StoreBar' = Message(req[t])
        <5>1. StoreBar' = Message(req[t])'
          BY <1>h, <4>1, StoreIsNext
        <5> QED
          BY <2>1, <5>1 DEF Message
      <4>3. ResultBar' = [ResultBar EXCEPT ![t] = <<>>]
        BY <1>t, <2>2, <3>3 DEF WriteLen, ResultBar
      <4>4. RequestBar[t].kind = "write" /\ RequestBar[t].msg = Message(req[t])
        BY <3>3 DEF WriteLen, RequestBar, Asked
      <4>5. Store!Write(t)
        BY <2>1, <3>1, <4>2, <4>3, <4>4 DEF Store!Write, Store!Effect, RequestBar, ResultBar
      <4> QED
        BY <4>5 DEF Store!Next
    <3>4. CASE Undefined(t)
      <4>1. StoreBar' = StoreBar
        BY <1>h, <1>t, <3>4, StoreStays DEF Undefined
      <4>2. ResultBar' = [ResultBar EXCEPT ![t] = <<>>]
        BY <1>t, <2>2, <3>4 DEF Undefined, ResultBar
      <4>3. RequestBar[t].kind = "other"
        BY <3>4 DEF Undefined, RequestBar, Asked
      <4>4. Store!Ignore(t)
        BY <2>1, <3>1, <4>1, <4>2, <4>3 DEF Store!Ignore, Store!Effect, RequestBar, ResultBar
      <4> QED
        BY <4>4 DEF Store!Next
    <3> QED
      BY <1>3, <2>5, <3>2, <3>3, <3>4
  <2> QED
    BY <2>4, <2>5
<1> QED
  BY <1>1, <1>2, <1>3

\* The struct begins as a store without a message.
LEMMA StoreBegins == Init => Store!Init
BY DEF Init, Store!Init, StoreBar, PhaseBar

\* Every step of the driver is a step of the store or a stutter.
LEMMA StoreSteps ==
  ASSUME IInv, IInv', WriteAt, ~EarlyOpen, [Next]_vars
  PROVE  [Store!Next]_(Store!vars)
<1>1. CASE UNCHANGED vars
  <2>1. UNCHANGED <<StoreBar, PhaseBar, RequestBar, ResultBar>>
    BY <1>1 DEF vars, loaderVars, pipeVars, taskVars, StoreBar, PhaseBar, RequestBar, ResultBar,
                Asked, Message, Prefix
  <2> QED
    BY <2>1 DEF Store!vars, RequestBar, ResultBar
<1>2. CASE Loader
  BY <1>2, LoaderIsHidden DEF Store!Next
<1>3. ASSUME NEW t \in Tasks, Task(t)
      PROVE  [Store!Next]_(Store!vars)
  <2>1. CASE Open(t) \/ Release(t) \/ Lock(t) \/ ReadRet(t) \/ WriteData(t)
    BY <2>1, TaskIsHidden
  <2>2. CASE \/ Ioctl(t) \/ Reject(t) \/ ReadCopy(t) \/ WriteLen(t)
             \/ Undefined(t) \/ Unlock(t)
    BY <2>2, TaskIsSeen
  <2>3. ~LockUnready(t) /\ ~UseStale(t)
    BY DEF LockUnready, UseStale, IInv, QuietAt, opened
  <2> QED
    BY <1>3, <2>1, <2>2, <2>3 DEF Task
<1> QED
  BY <1>1, <1>2, <1>3 DEF Next

\* Opened only once it is loaded, the driver is linearizable: concurrent
\* ioctls on both nodes read and write one message, each in one step, for any
\* number of tasks, any buffer and whichever call of hello_init fails.
THEOREM Linearizable ==
  ASSUME EarlyOpen = FALSE
  PROVE  Spec => ImplementsStore
<1>1. Init => WriteAt
  BY DEF Init, WriteAt
<1>2. IInv /\ IInv' /\ WriteAt /\ [Next]_vars => [Store!Next]_(Store!vars)
  BY StoreSteps
<1> QED
  BY <1>1, <1>2, Invariance, NextWriteAt, StoreBegins, PTL DEF Spec, ImplementsStore, Store!Spec
=============================================================================
