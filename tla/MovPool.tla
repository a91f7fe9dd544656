------------------------------- MODULE MovPool -------------------------------
(***************************************************************************)
(* The data movement handles of lib/src/move/mli_mov_api.cc: the dma_pool  *)
(* and callbacktable singletons, the asynchronous calls on handles and the *)
(* synchronous mli_mov_tensor_sync, which makes the same calls on a handle *)
(* of its own.                                                             *)
(*                                                                         *)
(* One action is one call of the API.  The application has several handles *)
(* in progress at once, so calls on different handles interleave, also     *)
(* with the calls inside a synchronous move.  What a transfer moves is the *)
(* business of MovTransfer; here a prepare succeeds, is refused or fails.  *)
(* The model is the build without USE_DMA, the one the repository's build  *)
(* files produce: prepare copies the data, start declares it done.         *)
(***************************************************************************)
EXTENDS Integers

CONSTANTS
  MaxDmaChan,       \* MAX_DMA_CHAN, the length of both tables
  Async,            \* handles of the asynchronous calls
  Sync,             \* callers of mli_mov_tensor_sync, each with its own handle
  Requests,         \* num_ch values asked of mli_mov_acquire_handle
  MaxReq,           \* a bound of Requests
  DocumentedStart,  \* clients call mli_mov_start only after a successful prepare
  NoCb,             \* the NULL callback
  Free, Outside     \* owners of the abstract pool that are not handles

ASSUME SizeAssumption == MaxDmaChan \in Nat \ {0} /\ MaxReq \in Nat \ {0}
ASSUME RequestAssumption == Requests \subseteq 0 .. MaxReq
ASSUME HandleAssumption ==
  /\ Async \cap Sync = {}
  /\ {NoCb, Free, Outside} \cap (Async \cup Sync) = {}
  /\ Free # Outside
ASSUME ClientAssumption == DocumentedStart \in BOOLEAN

Handle  == Async \cup Sync
Channel == 0 .. MaxDmaChan - 1

(* channel_status[] and the memory a scan for MaxReq channels may touch    *)
(* behind its end: the scan of mli_mov_acquire_handle starts in the pool   *)
(* but does not stop at its end.                                           *)
PoolCell == 0 .. MaxDmaChan + MaxReq - 2

Status == {"NOT_USED", "AVAILABLE", "IN_USE"}
State  == {"INVALID", "OPEN", "PREPARED", "DONE"}
Result == {"OK", "NOT_ENGH_MEM", "REFUSED", "TYPE_MISMATCH"}
Step   == {"idle", "acquire", "prepare", "start", "wait", "release"}

VARIABLES
  pool,           \* dma_pool.base_channel and pool_size
  status,         \* dma_pool.channel_status
  callbacktable,  \* whose callback and cookie an entry holds
  handle,         \* mli_mov_handle_t of each caller
  answer,         \* what the last acquire, prepare or start returned
  pc,             \* the next call of each synchronous move
  registered,     \* history: the handle's client has a callback registered
  moved,          \* history: a prepare moved data since the acquire
  fired           \* history: the callback this step called, and in whose start

poolVars == <<pool, status, callbacktable, handle, answer, pc, registered, moved, fired>>

NoCall == [by |-> NoCb, cb |-> NoCb]

NullHandle == [dma_ch |-> 0, num_ch |-> 0, state |-> "INVALID"]

Block(first, n) == first .. first + n - 1

HeldBy(h) == Block(handle[h].dma_ch, handle[h].num_ch)

PoolChannels == Block(pool.base, pool.size)

PoolInit ==
  /\ pool = [base |-> 0, size |-> MaxDmaChan]
  \* memory behind the array holds anything: all that matters is whether it
  \* reads as AVAILABLE
  /\ status \in {s \in [PoolCell -> {"NOT_USED", "AVAILABLE"}] :
                   \A c \in Channel : s[c] = "NOT_USED"}
  /\ callbacktable = [c \in Channel |-> NoCb]
  /\ handle = [h \in Handle |-> NullHandle]
  /\ answer = [h \in Handle |-> "OK"]
  /\ pc = [s \in Sync |-> "idle"]
  /\ registered = [h \in Handle |-> FALSE]
  /\ moved = [h \in Handle |-> FALSE]
  /\ fired = NoCall

-----------------------------------------------------------------------------
(* The calls, each on the handle h.                                        *)

(* Mutant: the scan runs one channel too far. *)
FreeBlocksInclusive(n) ==
  {i \in pool.base .. pool.base + pool.size :
     \A c \in Block(i, n) : c \in PoolCell /\ status[c] = "AVAILABLE"}

(* Mutant: the adjacent channels are not looked at. *)
FreeBlocksFirstOnly(n) == {i \in PoolChannels : status[i] = "AVAILABLE"}

(* Mutant: the first channel is looked at even when none is asked for. *)
FreeBlocksAtLeastOne(n) ==
  {i \in PoolChannels : \A c \in Block(i, n) \cup {i} : status[c] = "AVAILABLE"}

(* Where a block of n channels could start: in the pool, all n AVAILABLE.  *)
FreeBlocks(n) ==
  {i \in PoolChannels : \A c \in Block(i, n) : status[c] = "AVAILABLE"}

Mark(block, mark) == [c \in PoolCell |-> IF c \in block THEN mark ELSE status[c]]

Granted(h, n) ==
  \E i \in FreeBlocks(n) :
    /\ \A j \in FreeBlocks(n) : i <= j
    /\ handle' = [handle EXCEPT ![h] = [dma_ch |-> i, num_ch |-> n, state |-> "OPEN"]]
    /\ status' = Mark(Block(i, n), "IN_USE")
    /\ answer' = [answer EXCEPT ![h] = "OK"]

NotGranted(h, n) ==
  /\ FreeBlocks(n) = {}
  /\ answer' = [answer EXCEPT ![h] = "NOT_ENGH_MEM"]
  /\ UNCHANGED <<handle, status>>

AcquireHandle(h, n) ==
  /\ Granted(h, n) \/ NotGranted(h, n)
  /\ registered' = [registered EXCEPT ![h] = FALSE]
  /\ moved' = [moved EXCEPT ![h] = FALSE]
  /\ UNCHANGED <<pool, callbacktable>>
  /\ fired' = NoCall

Prepared(h) ==
  /\ handle' = [handle EXCEPT ![h].state = "PREPARED"]
  /\ answer' = [answer EXCEPT ![h] = "OK"]
  /\ moved' = [moved EXCEPT ![h] = TRUE]

(* Mutant: the result of the check is lost and the state set before it. *)
PrepareRefusedSilently(h) ==
  /\ handle' = [handle EXCEPT ![h].state = "PREPARED"]
  /\ answer' = [answer EXCEPT ![h] = "OK"]
  /\ UNCHANGED moved

(* A check of the tensors or the configuration fails: the handle is as it  *)
(* was, also when an earlier transfer left it DONE.                        *)
PrepareRefused(h) ==
  /\ answer' = [answer EXCEPT ![h] = "REFUSED"]
  /\ UNCHANGED <<handle, moved>>

(* An element size none of the copy loops has (FX_4, in a build without    *)
(* assertions): the state was set before.                                  *)
PrepareUnsupported(h) ==
  /\ handle' = [handle EXCEPT ![h].state = "PREPARED"]
  /\ answer' = [answer EXCEPT ![h] = "TYPE_MISMATCH"]
  /\ UNCHANGED moved

PrepareTransfer(h) ==
  /\ handle[h].state \in {"OPEN", "DONE"}
  /\ Prepared(h) \/ PrepareRefused(h) \/ PrepareUnsupported(h)
  /\ UNCHANGED <<pool, status, callbacktable, registered>>
  /\ fired' = NoCall

(* Mutant: start forgets the state. *)
StartTransferNotDone(h) ==
  /\ answer' = [answer EXCEPT ![h] = "OK"]
  /\ fired' = [by |-> h, cb |-> callbacktable[handle[h].dma_ch]]
  /\ UNCHANGED <<pool, status, callbacktable, handle, registered, moved>>

(* The callback runs inside start, as its last act: what it calls itself   *)
(* is a later step.  An entry NoCb is not called.                          *)
StartTransfer(h) ==
  /\ handle' = [handle EXCEPT ![h].state = "DONE"]
  /\ answer' = [answer EXCEPT ![h] = "OK"]
  /\ fired' = [by |-> h, cb |-> callbacktable[handle[h].dma_ch]]
  /\ UNCHANGED <<pool, status, callbacktable, registered, moved>>

IsDone(h) == handle[h].state = "DONE"

(* Mutant: the callback entry is cleared, but after dma_ch was reset. *)
ReleaseHandleClears(h) ==
  /\ status' = Mark(HeldBy(h), "AVAILABLE")
  /\ handle' = [handle EXCEPT ![h] = NullHandle]
  /\ callbacktable' = [callbacktable EXCEPT ![0] = NoCb]
  /\ registered' = [registered EXCEPT ![h] = FALSE]
  /\ moved' = [moved EXCEPT ![h] = FALSE]
  /\ UNCHANGED pool
  /\ fired' = NoCall

(* Mutant: the channels leave the pool. *)
ReleaseHandleForgets(h) ==
  /\ status' = Mark(HeldBy(h), "NOT_USED")
  /\ handle' = [handle EXCEPT ![h] = NullHandle]
  /\ registered' = [registered EXCEPT ![h] = FALSE]
  /\ moved' = [moved EXCEPT ![h] = FALSE]
  /\ UNCHANGED <<pool, callbacktable>>
  /\ fired' = NoCall

ReleaseHandle(h) ==
  /\ status' = Mark(HeldBy(h), "AVAILABLE")
  /\ handle' = [handle EXCEPT ![h] = NullHandle]
  /\ registered' = [registered EXCEPT ![h] = FALSE]
  /\ moved' = [moved EXCEPT ![h] = FALSE]
  /\ UNCHANGED <<pool, callbacktable>>
  /\ fired' = NoCall

-----------------------------------------------------------------------------
(* The asynchronous interface: the application calls in any order the      *)
(* documentation allows.                                                   *)

(* "Called once at initialization time": nothing was given to the library  *)
(* yet and no move is in progress.                                         *)
MayConfigure ==
  /\ \A c \in Channel : status[c] = "NOT_USED"
  /\ \A h \in Handle : handle[h].state = "INVALID"
  /\ \A s \in Sync : pc[s] = "idle"

SetNumDmaCh(ch_offset, num_ch) ==
  /\ MayConfigure
  /\ pool' = [base |-> ch_offset, size |-> num_ch]
  /\ status' = Mark(Block(ch_offset, num_ch), "AVAILABLE")
  /\ UNCHANGED <<callbacktable, handle, answer, pc, registered, moved>>
  /\ fired' = NoCall

Acquire(h, n) ==
  /\ handle[h].state = "INVALID"
  /\ AcquireHandle(h, n)
  /\ UNCHANGED pc

AsyncPrepare(h) == PrepareTransfer(h) /\ UNCHANGED pc

RegisterCallback(h, cb) ==
  /\ handle[h].state # "INVALID"
  /\ callbacktable' = [callbacktable EXCEPT ![handle[h].dma_ch] = cb]
  /\ registered' = [registered EXCEPT ![h] = (cb = h)]
  /\ UNCHANGED <<pool, status, handle, answer, pc, moved>>
  /\ fired' = NoCall

Start(h) ==
  /\ handle[h].state # "INVALID"
  /\ DocumentedStart => handle[h].state = "PREPARED" /\ answer[h] = "OK"
  /\ StartTransfer(h)
  /\ UNCHANGED pc

Release(h) ==
  /\ handle[h].state # "INVALID"
  /\ ReleaseHandle(h)
  /\ answer' = [answer EXCEPT ![h] = "OK"]
  /\ UNCHANGED pc

-----------------------------------------------------------------------------
(* mli_mov_tensor_sync: the same calls in a row on the handle of s, with   *)
(* no channel, and a release on every path.                                *)

Goto(s, step) == pc' = [pc EXCEPT ![s] = step]

SyncCall(s) ==
  /\ pc[s] = "idle"
  /\ Goto(s, "acquire")
  /\ UNCHANGED <<pool, status, callbacktable, handle, answer, registered, moved>>
  /\ fired' = NoCall

SyncAcquire(s) ==
  /\ pc[s] = "acquire"
  /\ AcquireHandle(s, 0)
  /\ Goto(s, IF answer'[s] = "OK" THEN "prepare" ELSE "release")

SyncPrepare(s) ==
  /\ pc[s] = "prepare"
  /\ PrepareTransfer(s)
  /\ Goto(s, IF answer'[s] = "OK" THEN "start" ELSE "release")

SyncStart(s) ==
  /\ pc[s] = "start"
  /\ StartTransfer(s)
  /\ Goto(s, "wait")

SyncWait(s) ==
  /\ pc[s] = "wait"
  /\ IsDone(s)
  /\ Goto(s, "release")
  /\ UNCHANGED <<pool, status, callbacktable, handle, answer, registered, moved>>
  /\ fired' = NoCall

SyncRelease(s) ==
  /\ pc[s] = "release"
  /\ ReleaseHandle(s)
  /\ Goto(s, "idle")
  /\ UNCHANGED answer   \* what the move returns, not what the release does

SyncStep(s) ==
  \/ SyncAcquire(s)
  \/ SyncPrepare(s)
  \/ SyncStart(s)
  \/ SyncWait(s)
  \/ SyncRelease(s)

PoolNext ==
  \/ \E ch_offset \in Channel : \E num_ch \in 0 .. MaxDmaChan - ch_offset :
       SetNumDmaCh(ch_offset, num_ch)
  \/ \E h \in Async, n \in Requests : Acquire(h, n)
  \/ \E h \in Async : AsyncPrepare(h)
  \/ \E h \in Async : \E cb \in {h, NoCb} : RegisterCallback(h, cb)
  \/ \E h \in Async : Start(h)
  \/ \E h \in Async : Release(h)
  \/ \E s \in Sync : SyncCall(s)
  \/ \E s \in Sync : SyncStep(s)

(* A synchronous move is straight-line code of one caller: once called it  *)
(* keeps taking steps.  The application owes no call, so nothing else is   *)
(* fair.                                                                   *)
Fairness == \A s \in Sync : WF_poolVars(SyncStep(s))

PoolSpec == PoolInit /\ [][PoolNext]_poolVars /\ Fairness

-----------------------------------------------------------------------------
(* Properties.                                                             *)

(* Values of the singletons and of the handles the calls leave behind.     *)
TypeOK ==
  /\ pool \in [base : Channel, size : 0 .. MaxDmaChan]
  /\ pool.base + pool.size <= MaxDmaChan
  /\ status \in [PoolCell -> Status]
  /\ callbacktable \in [Channel -> Async \cup {NoCb}]
  /\ handle \in [Handle -> [dma_ch : Channel, num_ch : 0 .. MaxReq, state : State]]
  /\ answer \in [Handle -> Result]
  /\ pc \in [Sync -> Step]
  /\ registered \in [Handle -> BOOLEAN]
  /\ moved \in [Handle -> BOOLEAN]
  /\ fired \in [by : Handle \cup {NoCb}, cb : Async \cup {NoCb}]

(* No two transfers share a DMA channel, and a channel is marked IN_USE    *)
(* exactly while some handle holds it: none is handed out twice and none   *)
(* is lost, whatever is acquired and released in between.                  *)
ChannelsExclusive ==
  /\ \A g, h \in Handle : g # h => HeldBy(g) \cap HeldBy(h) = {}
  /\ \A c \in PoolCell : status[c] = "IN_USE" <=> \E h \in Handle : c \in HeldBy(h)

(* A handle reports completion only of a transfer that was made: DONE      *)
(* implies a successful prepare since the handle was acquired.             *)
DoneMeansMoved == \A h \in Handle : IsDone(h) => moved[h]

(* A client that registered a callback on a handle with channels gets      *)
(* exactly this callback when its transfer completes, whatever the other   *)
(* handles and the synchronous moves did to the table in between.          *)
CallbackDelivered ==
  [][\A h \in Async :
       registered[h] /\ handle[h].num_ch > 0 /\ ~IsDone(h) /\ IsDone(h)'
         => fired' = [by |-> h, cb |-> h]]_poolVars

(* A synchronous move needs no channel in this build: only a pool of size  *)
(* 0, never other transfers that hold all channels, makes its acquire fail.*)
SyncRefusedOnlyByEmptyPool ==
  \A s \in Sync : pc[s] = "release" /\ answer[s] = "NOT_ENGH_MEM" => pool.size = 0

(* A synchronous move returns: mli_mov_wait is entered only when something *)
(* will end it, on the success path and on every failure path.             *)
SyncReturns == \A s \in Sync : pc[s] # "idle" ~> pc[s] = "idle"

(* Who owns a cell, read off the handles and channel_status.               *)
OwnerOf(c) ==
  IF status[c] = "IN_USE" THEN CHOOSE h \in Handle : c \in HeldBy(h)
  ELSE IF status[c] = "AVAILABLE" THEN Free ELSE Outside

PoolOwner == [c \in PoolCell |-> OwnerOf(c)]

Abstract == INSTANCE ChannelPool WITH Cell <- PoolCell, owner <- PoolOwner

(* The bookkeeping in channel_status and the handles implements the pool   *)
(* of ChannelPool.                                                         *)
ImplementsPool == Abstract!Spec
=============================================================================
