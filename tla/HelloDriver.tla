---------------------------- MODULE HelloDriver ----------------------------
(***************************************************************************)
(* The character driver of hello-driver/hello.c.  One insmod/rmmod thread  *)
(* (the loader) builds and tears down the single struct hello_pipe while   *)
(* tasks open /dev/hello0 or /dev/hello1 and issue ioctls on it.  Both     *)
(* minors reach the same struct and the same mutex (container_of on the    *)
(* one cdev), and hello_zero_ioctl and hello_one_ioctl are the same code,  *)
(* so a task stands for an open file on either node.                       *)
(*                                                                         *)
(* The kernel is external: an open takes a reference on the module because *)
(* cdev.owner is set, rmmod is refused while one is held, and a module     *)
(* being removed cannot be opened; mutex_unlock releases the mutex whoever *)
(* holds it.  A mutex that is zeroed and not initialised reads as free or  *)
(* as held with no wait list, depending on the kernel.                     *)
(***************************************************************************)
EXTENDS Integers, FiniteSets, Sequences

CONSTANTS
  Tasks,      \* processes that use the device
  NoTask,     \* the mutex has no owner
  Bytes,      \* byte values
  Zero,       \* the byte memset and a faulting copy_from_user leave behind
  Fault,      \* marks a tx_buf or rx_buf that faults when it is copied
  BufLen,     \* bytes of hello_pipe.data a request may use
  Cmds,       \* kinds of ioctl issued: subset of {"read","write","other","bad"}
  Faults,     \* initialisation calls that may fail
  EarlyOpen   \* may a task open the device while hello_init is still running?

ASSUME HelloAssumption ==
  /\ NoTask \notin Tasks
  /\ BufLen \in Nat
  /\ Zero \in Bytes /\ Fault \notin Bytes
  /\ Cmds \subseteq {"read", "write", "other", "bad"}
  /\ Faults \subseteq {"kmalloc", "region", "cdev", "class"}
  /\ EarlyOpen \in BOOLEAN

VARIABLES
  loader,     \* where insmod / rmmod is
  err,        \* which call of hello_init failed (alloc_ret, cdev_err, IS_ERR)
  held,       \* what the module has acquired
  phantom,    \* something never acquired was released
  ready,      \* mutex_init has run on this struct
  lock,       \* pHelloDev->lock
  len,        \* pHelloDev->len
  data,       \* pHelloDev->data
  pc,         \* where each task is
  req,        \* the ioctl each task is making or made last
  reply,      \* what that ioctl copied out and returned
  stale,      \* open files whose private_data is freed memory
  oops,       \* the kernel has faulted, and over what
  raced       \* history: mutex_init ran while the mutex was held

loaderVars == <<loader, err, held, phantom, ready>>
pipeVars == <<lock, len, data>>
taskVars == <<pc, req, reply>>
vars == <<loaderVars, pipeVars, taskVars, stale, oops, raced>>

Resources == {"mem", "region", "cdev", "class", "nodes"}
InitSteps == {"region", "cdev", "class", "nodes", "mutex"}
ErrSteps  == {"err_cdev", "err_region", "err_mem"}
ExitSteps == {"exit_nodes", "exit_class", "exit_cdev", "exit_region", "exit_mem"}
Body      == {"check", "rret", "wdata", "unlock"}

ENOTTY == -25

\* hello_transfer and the request number.  A write carries len copies of a
\* byte; len and byte of the others are not looked at, but for the Fault of a
\* read whose rx_buf cannot be written.  An arg that faults zero-fills the
\* transfer, which is then a request of length 0.
Requests ==
  [cmd : Cmds \cap {"write"}, len : 0 .. BufLen, byte : Bytes \cup {Fault}]
    \cup [cmd : Cmds \cap {"read"}, len : {0}, byte : {Zero, Fault}]
    \cup [cmd : Cmds \ {"read", "write"}, len : {0}, byte : {Zero}]
NoRequest == [cmd |-> "none", len |-> 0, byte |-> Zero]

\* The first n bytes of the buffer, as copy_to_user delivers them.
Prefix(buf, n) == [i \in 1 .. n |-> buf[i]]

\* What copy_from_user stores: a fault zero-fills the destination.
Stored(byte) == IF byte = Fault THEN Zero ELSE byte

opened == {t \in Tasks : pc[t] # "closed"}

-----------------------------------------------------------------------------
Init ==
  /\ loader = "unloaded"
  /\ err = "none"
  /\ held = {}
  /\ phantom = FALSE
  /\ ready = FALSE
  /\ lock = NoTask
  /\ len = 0
  /\ data = [i \in 1 .. BufLen |-> Zero]
  /\ pc = [t \in Tasks |-> "closed"]
  /\ req = [t \in Tasks |-> NoRequest]
  /\ reply = [t \in Tasks |-> [ret |-> 0, data |-> <<>>]]
  /\ stale = {}
  /\ oops = "none"
  /\ raced = FALSE

-----------------------------------------------------------------------------
(* hello_init, one action per call that can fail or that others can see.   *)

\* kmalloc and memset.  A failure jumps to error:, which reads
\* pHelloDev->pHello_class through the null pointer.
InitMalloc ==
  /\ loader = "unloaded"
  /\ \/ /\ loader' = "region"
        /\ held' = {"mem"}
        /\ ready' = FALSE
        /\ lock' = NoTask
        /\ len' = 0
        /\ data' = [i \in 1 .. BufLen |-> Zero]
        /\ err' = "none"
        /\ phantom' = FALSE
        /\ raced' = FALSE
        /\ UNCHANGED oops
     \/ /\ "kmalloc" \in Faults
        /\ oops' = "kmalloc"
        /\ UNCHANGED <<loaderVars, pipeVars, raced>>
  /\ UNCHANGED <<taskVars, stale>>

\* alloc_chrdev_region, cdev_add or class_create: it succeeds, or jumps to
\* error:.  An ERR_PTR class is not destroyed there.
InitAcquire(step, next) ==
  /\ loader = step
  /\ \/ /\ held' = held \cup {step}
        /\ loader' = next
        /\ UNCHANGED err
     \/ /\ step \in Faults
        /\ err' = step
        /\ loader' = "err_cdev"
        /\ UNCHANGED held
  /\ UNCHANGED <<phantom, ready, pipeVars, taskVars, stale, oops, raced>>

\* device_create for every minor; its result is ignored.
InitNodes ==
  /\ loader = "nodes"
  /\ held' = held \cup {"nodes"}
  /\ loader' = "mutex"
  /\ UNCHANGED <<err, phantom, ready, pipeVars, taskVars, stale, oops, raced>>

\* mutex_init, the last step of hello_init: the device has been visible
\* since cdev_add, so the mutex may be held when it is reset.
InitMutex ==
  /\ loader = "mutex"
  /\ ready' = TRUE
  /\ lock' = NoTask
  /\ raced' = (raced \/ lock # NoTask)
  /\ loader' = "live"
  /\ UNCHANGED <<err, held, phantom, len, data, taskVars, stale, oops>>

\* Mutated form of ErrRelease: behind the one flag for both.
ErrReleaseBehindOneFlag(step, r, next) ==
  /\ loader = step
  /\ held' = IF err = "class" THEN held \ {r} ELSE held
  /\ phantom' = (phantom \/ (err = "class" /\ r \notin held))
  /\ loader' = next
  /\ UNCHANGED <<err, ready, pipeVars, taskVars, stale, oops, raced>>

\* The cdev_del and unregister_chrdev_region of error:, each behind the
\* result of its own call only (cdev_err, alloc_ret), which is still 0 when
\* an earlier call failed.
ErrRelease(step, r, next) ==
  /\ loader = step
  /\ held' = IF err # r THEN held \ {r} ELSE held
  /\ phantom' = (phantom \/ (err # r /\ r \notin held))
  /\ loader' = next
  /\ UNCHANGED <<err, ready, pipeVars, taskVars, stale, oops, raced>>

\* kfree(pHelloDev).  It happens in error:, and last in hello_exit.  Files
\* still open point to freed memory from here on.
Free(step) ==
  /\ loader = step
  /\ held' = held \ {"mem"}
  /\ stale' = stale \cup opened
  /\ loader' = "unloaded"
  /\ UNCHANGED <<err, phantom, ready, pipeVars, taskVars, oops, raced>>

\* Mutated form of Rmmod: cdev.owner left unset, so open files do not count.
RmmodWithFilesOpen ==
  /\ loader = "live"
  /\ loader' = "exit_nodes"
  /\ UNCHANGED <<err, held, phantom, ready, pipeVars, taskVars, stale, oops, raced>>

\* delete_module: refused while an open file holds a module reference.
Rmmod ==
  /\ loader = "live"
  /\ opened \ stale = {}
  /\ loader' = "exit_nodes"
  /\ UNCHANGED <<err, held, phantom, ready, pipeVars, taskVars, stale, oops, raced>>

\* device_destroy, class_destroy, cdev_del, unregister_chrdev_region.
ExitRelease(step, r, next) ==
  /\ loader = step
  /\ held' = held \ {r}
  /\ loader' = next
  /\ UNCHANGED <<err, phantom, ready, pipeVars, taskVars, stale, oops, raced>>

Loader ==
  \/ InitMalloc
  \/ InitAcquire("region", "cdev")
  \/ InitAcquire("cdev", "class")
  \/ InitAcquire("class", "nodes")
  \/ InitNodes
  \/ InitMutex
  \/ ErrRelease("err_cdev", "cdev", "err_region")
  \/ ErrRelease("err_region", "region", "err_mem")
  \/ Free("err_mem")
  \/ Rmmod
  \/ ExitRelease("exit_nodes", "nodes", "exit_class")
  \/ ExitRelease("exit_class", "class", "exit_cdev")
  \/ ExitRelease("exit_cdev", "cdev", "exit_region")
  \/ ExitRelease("exit_region", "region", "exit_mem")
  \/ Free("exit_mem")

-----------------------------------------------------------------------------
(* The file operations.  Step moves one task of a live file.               *)

Step(t, from, to) ==
  /\ pc[t] = from
  /\ t \notin stale
  /\ pc' = [pc EXCEPT ![t] = to]

\* hello_open through chrdev_open: it needs the cdev and a module that is
\* not being removed, then swaps in the minor's operations.
Open(t) ==
  /\ "cdev" \in held
  /\ loader \notin ExitSteps
  /\ EarlyOpen \/ loader = "live"
  /\ Step(t, "closed", "open")
  /\ UNCHANGED <<loaderVars, pipeVars, req, reply, stale, oops, raced>>

\* The last close of the file: the release handlers touch nothing.
Release(t) ==
  /\ Step(t, "open", "closed")
  /\ UNCHANGED <<loaderVars, pipeVars, req, reply, stale, oops, raced>>

Ioctl(t) ==
  /\ Step(t, "open", "locking")
  /\ \E r \in Requests : req' = [req EXCEPT ![t] = r]
  /\ UNCHANGED <<loaderVars, pipeVars, reply, stale, oops, raced>>

\* Mutated form of Lock: the caller does not wait for the mutex.
LockWithoutWaiting(t) ==
  /\ Step(t, "locking", "check")
  /\ lock' = t
  /\ UNCHANGED <<loaderVars, len, data, req, reply, stale, oops, raced>>

\* mutex_lock.
Lock(t) ==
  /\ lock = NoTask
  /\ Step(t, "locking", "check")
  /\ lock' = t
  /\ UNCHANGED <<loaderVars, len, data, req, reply, stale, oops, raced>>

\* mutex_lock before mutex_init: a kernel in which a zeroed mutex reads as
\* held, or a second caller, queues on a wait list that is all zeros.
LockUnready(t) ==
  /\ pc[t] = "locking" /\ t \notin stale
  /\ ~ready
  /\ oops' = "waitlist"
  /\ UNCHANGED <<loaderVars, pipeVars, taskVars, stale, raced>>

\* Wrong magic, or a number above HELLO_IOC_MAXNR: return -ENOTTY.  The
\* mutex is not released on this path.
Reject(t) ==
  /\ req[t].cmd = "bad"
  /\ Step(t, "check", "open")
  /\ reply' = [reply EXCEPT ![t] = [ret |-> ENOTTY, data |-> <<>>]]
  /\ UNCHANGED <<loaderVars, pipeVars, req, stale, oops, raced>>

\* HELLO_READ: copy_to_user of len bytes, nothing if rx_buf faults; then len
\* is read again for the return value, which does not tell of a fault.
ReadCopy(t) ==
  /\ req[t].cmd = "read"
  /\ Step(t, "check", "rret")
  /\ reply' = [reply EXCEPT ![t].data =
                IF req[t].byte = Fault THEN <<>> ELSE Prefix(data, len)]
  /\ UNCHANGED <<loaderVars, pipeVars, req, stale, oops, raced>>

\* Mutated form of ReadRet: the call returns from inside the switch.
ReadRetKeepingLock(t) ==
  /\ Step(t, "rret", "open")
  /\ reply' = [reply EXCEPT ![t].ret = len]
  /\ UNCHANGED <<loaderVars, pipeVars, req, stale, oops, raced>>

ReadRet(t) ==
  /\ Step(t, "rret", "unlock")
  /\ reply' = [reply EXCEPT ![t].ret = len]
  /\ UNCHANGED <<loaderVars, pipeVars, req, stale, oops, raced>>

\* HELLO_WRITE: len first, then the bytes.
WriteLen(t) ==
  /\ req[t].cmd = "write"
  /\ Step(t, "check", "wdata")
  /\ len' = req[t].len
  /\ UNCHANGED <<loaderVars, lock, data, req, reply, stale, oops, raced>>

\* Mutated form of WriteData: only as many bytes as the buffer held before.
WriteDataShort(t) ==
  /\ Step(t, "wdata", "unlock")
  /\ data' = [i \in 1 .. BufLen |->
                IF i < req[t].len THEN Stored(req[t].byte) ELSE data[i]]
  /\ reply' = [reply EXCEPT ![t] = [ret |-> len, data |-> <<>>]]
  /\ UNCHANGED <<loaderVars, lock, len, req, stale, oops, raced>>

WriteData(t) ==
  /\ Step(t, "wdata", "unlock")
  /\ data' = [i \in 1 .. BufLen |->
                IF i <= req[t].len THEN Stored(req[t].byte) ELSE data[i]]
  /\ reply' = [reply EXCEPT ![t] = [ret |-> len, data |-> <<>>]]
  /\ UNCHANGED <<loaderVars, lock, len, req, stale, oops, raced>>

\* default: of the switch, HELLO_ENABLE and HELLO_DISABLE included.
Undefined(t) ==
  /\ req[t].cmd = "other"
  /\ Step(t, "check", "unlock")
  /\ reply' = [reply EXCEPT ![t] = [ret |-> 0, data |-> <<>>]]
  /\ UNCHANGED <<loaderVars, pipeVars, req, stale, oops, raced>>

Unlock(t) ==
  /\ Step(t, "unlock", "open")
  /\ lock' = NoTask
  /\ UNCHANGED <<loaderVars, len, data, req, reply, stale, oops, raced>>

\* Any use of a file whose driver has been freed under it.
UseStale(t) ==
  /\ t \in stale
  /\ oops' = "stale"
  /\ UNCHANGED <<loaderVars, pipeVars, taskVars, stale, raced>>

Task(t) ==
  \/ Open(t) \/ Release(t) \/ Ioctl(t)
  \/ Lock(t) \/ LockUnready(t) \/ Reject(t)
  \/ ReadCopy(t) \/ ReadRet(t)
  \/ WriteLen(t) \/ WriteData(t)
  \/ Undefined(t) \/ Unlock(t)
  \/ UseStale(t)

\* Nothing is claimed of a kernel that has faulted: the model stops there.
Next ==
  /\ oops = "none"
  /\ Loader \/ \E t \in Tasks : Task(t)

Spec == Init /\ [][Next]_vars

\* The code inside the mutex never sleeps, so a task there goes on; waiters
\* of a kernel mutex are handed it in turn, so one that keeps finding it free
\* takes it.  A task is not obliged to call, nor the loader to unload.
Fairness ==
  \A t \in Tasks :
    /\ SF_vars(oops = "none" /\ Lock(t))
    /\ WF_vars(oops = "none" /\ (\/ Reject(t) \/ ReadCopy(t) \/ ReadRet(t) \/ WriteLen(t)
                                 \/ WriteData(t) \/ Undefined(t) \/ Unlock(t)))

FairSpec == Spec /\ Fairness

-----------------------------------------------------------------------------
(* Properties.                                                             *)

Request == Requests \cup {NoRequest}
Payloads == UNION {[1 .. n -> Bytes] : n \in 0 .. BufLen}
Reply == [ret : (0 .. BufLen) \cup {ENOTTY}, data : Payloads]

\* The variables of hello.c keep to these sets; BufLen bounds len because no
\* request of the model exceeds it (the code itself does not check).
TypeOK ==
  /\ loader \in {"unloaded", "live"} \cup InitSteps \cup ErrSteps \cup ExitSteps
  /\ err \in {"none", "region", "cdev", "class"}
  /\ held \subseteq Resources
  /\ phantom \in BOOLEAN /\ ready \in BOOLEAN /\ raced \in BOOLEAN
  /\ lock \in Tasks \cup {NoTask}
  /\ len \in 0 .. BufLen
  /\ data \in [1 .. BufLen -> Bytes]
  /\ pc \in [Tasks -> {"closed", "open", "locking"} \cup Body]
  /\ req \in [Tasks -> Request]
  /\ reply \in [Tasks -> Reply]
  /\ stale \subseteq Tasks
  /\ oops \in {"none", "kmalloc", "waitlist", "stale"}

Inside(t) == pc[t] \in Body /\ t \notin stale

\* Two ioctls of one struct never overlap between mutex_lock and
\* mutex_unlock, unless mutex_init came after a caller had taken the mutex:
\* that late mutex_init is the only way in.
MutualExclusion ==
  ~raced => \A t, u \in Tasks : Inside(t) /\ Inside(u) => t = u

\* A mutex that nobody inside an ioctl holds was left behind by a call that
\* was answered -ENOTTY: no other path returns without mutex_unlock.
OnlyARejectedCallKeepsTheLock ==
  ~raced /\ lock # NoTask => pc[lock] \in Body \/ reply[lock].ret = ENOTTY

Leaked == lock # NoTask /\ pc[lock] \notin Body

\* Once an ioctl has returned with the mutex, no caller gets in and nothing
\* gives the mutex back, its owner's close included, until the struct is
\* freed (or the late mutex_init overwrites it).
ALeakLastsUntilUnload ==
  [][Leaked /\ ~raced =>
       \/ lock' = lock /\ \A t \in Tasks : Inside(t)' => Inside(t)
       \/ loader \in {"unloaded", "mutex"}]_vars

\* A file outlives the struct it points to only when class_create failed
\* after cdev_add had made the device visible: rmmod never does it.
OnlyAFailedLoadStrandsFiles == [][stale' # stale => err = "class"]_vars

\* Whatever call of hello_init fails, error: gives back all that was
\* acquired, and hello_exit does; what was never acquired is released only
\* when alloc_chrdev_region fails, by a cdev_del of a cdev not initialised.
UnloadedHoldsNothing ==
  /\ loader = "unloaded" => held = {}
  /\ phantom => err = "region"

\* When no file is opened before hello_init is done, the only fault left is
\* the null pointer of error: after kmalloc failed.
QuietLoadIsSafe == ~EarlyOpen => oops \in {"none", "kmalloc"} /\ ~raced /\ stale = {}

\* With legal requests only, every ioctl gets the mutex and returns.
EveryCallReturns == \A t \in Tasks : pc[t] = "locking" ~> pc[t] = "open"

-----------------------------------------------------------------------------
(* The promise the driver implements when nobody opens it too early.  A    *)
(* write takes effect when it sets len: until the bytes are in, the        *)
(* message of the store is the one the caller is still copying.            *)

Message(r) == [i \in 1 .. r.len |-> Stored(r.byte)]
Asked(r) ==
  [kind |-> IF r.cmd = "read" /\ r.byte = Fault THEN "blind" ELSE r.cmd,
   msg  |-> Message(r)]

StoreBar ==
  IF "mem" \notin held THEN <<>>
  ELSE IF \E t \in Tasks : pc[t] = "wdata"
       THEN Message(req[CHOOSE t \in Tasks : pc[t] = "wdata"])
       ELSE Prefix(data, len)

PhaseBar == [t \in Tasks |->
  CASE pc[t] \in {"closed", "open"} -> "idle"
    [] pc[t] \in {"locking", "check"} -> "called"
    [] OTHER -> "done"]

Store == INSTANCE MessageStore WITH
  Requests <- {Asked(r) : r \in Requests},
  NoRequest <- Asked(NoRequest),
  store <- StoreBar,
  phase <- PhaseBar,
  request <- [t \in Tasks |-> Asked(req[t])],
  result <- [t \in Tasks |-> IF pc[t] = "wdata" THEN <<>> ELSE reply[t].data]

\* Concurrent ioctls of hello.c are linearizable: the driver implements the
\* store in which each read and each write is one step.
ImplementsStore == Store!Spec

=============================================================================
