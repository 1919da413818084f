---------------------------- MODULE ManagedMemory ----------------------------
(***************************************************************************)
(* Flink managed memory as the native operators of one slot share it:      *)
(* FlinkManagedMemory (one per operator), NativeOperatorMemoryPool (one    *)
(* per slot), and the native owners whose credit it accounts for:          *)
(* HostMemoryReservation (a kernel's scratch, and the outputs split from   *)
(* it), FlinkMemoryPool (DataFusion), and Arrow Java buffers.              *)
(*                                                                         *)
(* Every method is synchronized, so a call is a step; onFailedAllocation   *)
(* is two.  External: Flink's MemoryManager, of which other consumers of   *)
(* the slot hold Others bytes, and Arrow's allocator, which calls          *)
(* onPreAllocation and then onAllocation or onFailedAllocation.            *)
(***************************************************************************)
EXTENDS Naturals, FiniteSetsExt, TLAPS

CONSTANTS Operators,   \* operators of the slot
          Limit,       \* the slot's OPERATOR allowance
          Slot         \* all managed memory of the slot

ASSUME BudgetAssumption == Limit \in Nat \ {0} /\ Slot \in Nat /\ Limit <= Slot

Bytes == 1 .. Limit

VARIABLES
    lease,      \* each operator's lease on the pool: none, held, returned
    closed,     \* FlinkManagedMemory.closed
    closing,    \* close() is between its two critical sections
    reserved,   \* FlinkManagedMemory.reserved
    transfer,   \* FlinkManagedMemory.pendingArrowTransfer
    charge,     \* the task thread's AllocationCharge, or none, or half undone
    importing,  \* the task thread is between a transfer and its finally
    scratch,    \* size of the kernel's HostMemoryReservation
    output,     \* credit split off into retained outputs
    df,         \* FlinkMemoryPool.reserved
    arrow,      \* bytes of live Arrow Java buffers
    pool,       \* NativeOperatorMemoryPool.reserved
    others      \* managed memory the rest of the slot holds

managerVars == <<pool, others>>
nativeVars  == <<scratch, output, df>>
vars == <<lease, closed, closing, reserved, transfer, charge, importing, nativeVars, arrow,
          managerVars>>

NoCharge == [phase |-> "none", transferred |-> 0, additional |-> 0]
Charges == [phase : {"none", "charged", "undone"}, transferred : 0 .. Limit, additional : 0 .. Limit]

Init ==
    /\ lease = [o \in Operators |-> "none"]
    /\ closed = [o \in Operators |-> FALSE]
    /\ closing = [o \in Operators |-> FALSE]
    /\ reserved = [o \in Operators |-> 0]
    /\ transfer = [o \in Operators |-> 0]
    /\ charge = [o \in Operators |-> NoCharge]
    /\ importing = [o \in Operators |-> FALSE]
    /\ scratch = [o \in Operators |-> 0]
    /\ output = [o \in Operators |-> 0]
    /\ df = [o \in Operators |-> 0]
    /\ arrow = [o \in Operators |-> 0]
    /\ pool = 0 /\ others = 0

-----------------------------------------------------------------------------
\* NativeOperatorMemoryPool and FlinkManagedMemory

Open(o) ==
    /\ lease[o] = "none"
    /\ lease' = [lease EXCEPT ![o] = "held"]
    /\ UNCHANGED <<closed, closing, reserved, transfer, charge, importing, nativeVars, arrow, managerVars>>

\* FlinkManagedMemory.tryReserve: refused when closed, beyond the slot's
\* operator allowance, or when the rest of the slot holds the memory.
TryReserve(o, bytes) ==
    /\ lease[o] # "none" /\ ~closed[o]
    /\ bytes <= Limit - pool
    /\ pool + others + bytes <= Slot
    /\ pool' = pool + bytes
    /\ reserved' = [reserved EXCEPT ![o] = @ + bytes]
    /\ UNCHANGED <<lease, closed, closing, others>>

\* Fault: a late release leaves the lease to close().
Return_KeepsLease(o, bytes, isClosed) ==
    /\ bytes <= reserved[o] /\ bytes <= pool
    /\ pool' = pool - bytes
    /\ reserved' = [reserved EXCEPT ![o] = @ - bytes]
    /\ lease' = lease

\* FlinkManagedMemory.release; the last byte of a closed operator returns its
\* lease.  Releasing nothing returns before that.
Return(o, bytes, isClosed) ==
    /\ bytes <= reserved[o] /\ bytes <= pool
    /\ pool' = pool - bytes
    /\ reserved' = [reserved EXCEPT ![o] = @ - bytes]
    /\ lease' = [lease EXCEPT ![o] =
           IF bytes > 0 /\ isClosed /\ reserved[o] = bytes THEN "returned" ELSE @]

Release(o, bytes) ==
    /\ Return(o, bytes, closed[o])
    /\ UNCHANGED <<closed, closing, others>>

-----------------------------------------------------------------------------
\* Native owners

\* HostMemoryReservation.try_grow.
GrowScratch(o, bytes) ==
    /\ TryReserve(o, bytes)
    /\ scratch' = [scratch EXCEPT ![o] = @ + bytes]
    /\ UNCHANGED <<transfer, charge, importing, output, df, arrow>>

\* HostMemoryReservation.resize downwards, and Drop.
ShrinkScratch(o, bytes) ==
    /\ bytes <= scratch[o]
    /\ Release(o, bytes)
    /\ scratch' = [scratch EXCEPT ![o] = @ - bytes]
    /\ UNCHANGED <<transfer, charge, importing, output, df, arrow>>

\* split: admitted credit moves to the owner of a retained output.
Split(o, bytes) ==
    /\ bytes <= scratch[o]
    /\ scratch' = [scratch EXCEPT ![o] = @ - bytes]
    /\ output' = [output EXCEPT ![o] = @ + bytes]
    /\ UNCHANGED <<lease, closed, closing, reserved, transfer, charge, importing, df, arrow, managerVars>>

\* grow_from: and back, into state that outlives the computation.
GrowFrom(o, bytes) ==
    /\ bytes <= output[o]
    /\ output' = [output EXCEPT ![o] = @ - bytes]
    /\ scratch' = [scratch EXCEPT ![o] = @ + bytes]
    /\ UNCHANGED <<lease, closed, closing, reserved, transfer, charge, importing, df, arrow, managerVars>>

\* The last buffer of a retained batch is dropped, by whichever thread held it.
DropOutput(o, bytes) ==
    /\ bytes <= output[o]
    /\ Release(o, bytes)
    /\ output' = [output EXCEPT ![o] = @ - bytes]
    /\ UNCHANGED <<transfer, charge, importing, scratch, df, arrow>>

\* FlinkMemoryPool.try_grow: its own limit, then the broker.
PoolGrow(o, bytes) ==
    /\ df[o] + bytes <= Limit
    /\ TryReserve(o, bytes)
    /\ df' = [df EXCEPT ![o] = @ + bytes]
    /\ UNCHANGED <<transfer, charge, importing, scratch, output, arrow>>

\* FlinkMemoryPool.shrink, and Drop.
PoolShrink(o, bytes) ==
    /\ bytes <= df[o]
    /\ Release(o, bytes)
    /\ df' = [df EXCEPT ![o] = @ - bytes]
    /\ UNCHANGED <<transfer, charge, importing, scratch, output, arrow>>

-----------------------------------------------------------------------------
\* The hand-over to Arrow Java

\* HostMemoryReservation.transfer_to_arrow over FlinkManagedMemory.transferToArrow.
\* The caller's import follows, and its finally block.
TransferToArrow(o, bytes) ==
    /\ ~importing[o] /\ charge[o].phase = "none"
    /\ bytes <= scratch[o]
    /\ ~closed[o] /\ transfer[o] = 0 /\ bytes <= reserved[o]
    /\ transfer' = [transfer EXCEPT ![o] = bytes]
    /\ scratch' = [scratch EXCEPT ![o] = @ - bytes]
    /\ importing' = [importing EXCEPT ![o] = TRUE]
    /\ UNCHANGED <<lease, closed, closing, reserved, charge, output, df, arrow, managerVars>>

\* finishArrowTransfer, in the finally block of the import.
FinishArrowTransfer(o) ==
    /\ importing[o] /\ charge[o].phase = "none"
    /\ Release(o, transfer[o])
    /\ transfer' = [transfer EXCEPT ![o] = 0]
    /\ importing' = [importing EXCEPT ![o] = FALSE]
    /\ UNCHANGED <<charge, nativeVars, arrow>>

\* onPreAllocation: pending credit first, the rest is reserved or refused.
OnPreAllocation(o, size) ==
    /\ charge[o].phase = "none"
    /\ LET transferred == IF size <= transfer[o] THEN size ELSE transfer[o]
           additional == size - transferred
       IN  /\ TryReserve(o, additional)
           /\ transfer' = [transfer EXCEPT ![o] = @ - transferred]
           /\ charge' = [charge EXCEPT ![o] =
                  [phase |-> "charged", transferred |-> transferred, additional |-> additional]]
    /\ UNCHANGED <<importing, nativeVars, arrow>>

OnAllocation(o) ==
    /\ charge[o].phase = "charged"
    /\ arrow' = [arrow EXCEPT ![o] = @ + charge[o].transferred + charge[o].additional]
    /\ charge' = [charge EXCEPT ![o] = NoCharge]
    /\ UNCHANGED <<lease, closed, closing, reserved, transfer, importing, nativeVars, managerVars>>

\* Fault: the transferred part of a failed allocation is forgotten.
OnFailedAllocation_DropsCredit(o) ==
    /\ charge[o].phase = "charged"
    /\ charge' = [charge EXCEPT ![o] =
           [phase |-> "undone", transferred |-> 0, additional |-> @.additional]]
    /\ UNCHANGED <<lease, closed, closing, reserved, transfer, importing, nativeVars, arrow, managerVars>>

\* onFailedAllocation, first half: the transferred credit is pending again.
OnFailedAllocation(o) ==
    /\ charge[o].phase = "charged"
    /\ transfer' = [transfer EXCEPT ![o] = @ + charge[o].transferred]
    /\ charge' = [charge EXCEPT ![o] =
           [phase |-> "undone", transferred |-> 0, additional |-> @.additional]]
    /\ UNCHANGED <<lease, closed, closing, reserved, importing, nativeVars, arrow, managerVars>>

\* Second half: the additional reservation is released.
ReleaseAdditional(o) ==
    /\ charge[o].phase = "undone"
    /\ Release(o, charge[o].additional)
    /\ charge' = [charge EXCEPT ![o] = NoCharge]
    /\ UNCHANGED <<transfer, importing, nativeVars, arrow>>

\* onRelease, from the thread that drops the Arrow buffer.
OnRelease(o, bytes) ==
    /\ bytes <= arrow[o]
    /\ Release(o, bytes)
    /\ arrow' = [arrow EXCEPT ![o] = @ - bytes]
    /\ UNCHANGED <<transfer, charge, importing, nativeVars>>

-----------------------------------------------------------------------------
\* FlinkManagedMemory.close

\* First critical section: no new admission, and what is pending is released.
\* What native and Arrow owners still hold stays reserved until they let go.
Close(o) ==
    /\ lease[o] = "held" /\ ~closed[o]
    /\ closed' = [closed EXCEPT ![o] = TRUE]
    /\ closing' = [closing EXCEPT ![o] = TRUE]
    /\ Return(o, transfer[o], TRUE)
    /\ transfer' = [transfer EXCEPT ![o] = 0]
    /\ UNCHANGED <<charge, importing, nativeVars, arrow, others>>

\* Fault: close gives the lease up whatever is still reserved.
CloseLease_Unconditional(o) ==
    /\ closing[o]
    /\ closing' = [closing EXCEPT ![o] = FALSE]
    /\ lease' = [lease EXCEPT ![o] = "returned"]
    /\ UNCHANGED <<closed, reserved, transfer, charge, importing, nativeVars, arrow, managerVars>>

\* Last critical section, after the allocators were closed, whether or not they
\* complained of live buffers: closeLeaseIfReleased.
CloseLease(o) ==
    /\ closing[o]
    /\ closing' = [closing EXCEPT ![o] = FALSE]
    /\ lease' = [lease EXCEPT ![o] = IF reserved[o] = 0 THEN "returned" ELSE @]
    /\ UNCHANGED <<closed, reserved, transfer, charge, importing, nativeVars, arrow, managerVars>>

\* The other consumers of the slot (external).
OthersReserve ==
    /\ pool + others < Slot
    /\ others' = others + 1
    /\ UNCHANGED <<lease, closed, closing, reserved, transfer, charge, importing, nativeVars, arrow, pool>>

OthersRelease ==
    /\ others > 0
    /\ others' = others - 1
    /\ UNCHANGED <<lease, closed, closing, reserved, transfer, charge, importing, nativeVars, arrow, pool>>

-----------------------------------------------------------------------------

\* Steps that give memory back, or that finish what has begun.
ReturnStep(o) ==
    \/ \E bytes \in Bytes : \/ ShrinkScratch(o, bytes) \/ DropOutput(o, bytes)
                            \/ PoolShrink(o, bytes) \/ OnRelease(o, bytes)
    \/ FinishArrowTransfer(o) \/ OnAllocation(o) \/ OnFailedAllocation(o) \/ ReleaseAdditional(o)
    \/ CloseLease(o)

AcquireStep(o) ==
    \/ Open(o)
    \/ \E bytes \in Bytes : \/ GrowScratch(o, bytes) \/ PoolGrow(o, bytes)
                            \/ Split(o, bytes) \/ GrowFrom(o, bytes)
                            \/ TransferToArrow(o, bytes) \/ OnPreAllocation(o, bytes)

Next ==
    \/ \E o \in Operators : AcquireStep(o) \/ ReturnStep(o) \/ Close(o)
    \/ OthersReserve \/ OthersRelease

Safety == Init /\ [][Next]_vars

\* A closed operator's owners let go of what they hold: its native context drops
\* its reservations, downstream releases its buffers, finally blocks run.
Spec == Safety /\ \A o \in Operators : WF_vars(closed[o] /\ ReturnStep(o))

-----------------------------------------------------------------------------
\* Properties

\* Every variable has its type, and no owner is charged a negative amount.
TypeOK ==
    /\ lease \in [Operators -> {"none", "held", "returned"}]
    /\ closed \in [Operators -> BOOLEAN] /\ closing \in [Operators -> BOOLEAN]
    /\ importing \in [Operators -> BOOLEAN]
    /\ reserved \in [Operators -> Nat] /\ transfer \in [Operators -> Nat]
    /\ charge \in [Operators -> Charges]
    /\ scratch \in [Operators -> Nat] /\ output \in [Operators -> Nat]
    /\ df \in [Operators -> Nat] /\ arrow \in [Operators -> Nat]
    /\ pool \in Nat /\ others \in Nat

\* What an operator has reserved is exactly what its owners hold: no byte is
\* charged twice or lost when credit is split, handed over to Arrow, given back
\* by a failed allocation, or released after close.
Held(o) ==
    scratch[o] + output[o] + df[o] + arrow[o] + transfer[o]
        + charge[o].transferred + charge[o].additional

ExactAccounting == \A o \in Operators : reserved[o] = Held(o)

\* The slot's managed memory is never overcommitted, whatever the operators and
\* the rest of the slot race for, and the operators stay within their allowance.
WithinBudget == pool + others <= Slot /\ pool <= Limit

\* An operator's lease on the shared pool is returned only when nothing of its
\* memory is out, and from then on nothing can be: closing the pool with the
\* last lease finds no live reservation.
LeaseCoversMemory ==
    \A o \in Operators : lease[o] # "held" => Held(o) = 0 /\ reserved[o] = 0

\* A returned lease is not left behind: a closed operator gets there as soon as
\* its owners have let go, whichever of close and the last release is later.
LeaseReturned == \A o \in Operators : closed[o] ~> lease[o] = "returned"

-----------------------------------------------------------------------------
(***************************************************************************)
(* The accounting of ManagedMemory, for any number of operators and any    *)
(* budget.  Each operator's books are independent of the others' except    *)
(* through the shared pool, so the inductive invariant is one formula per  *)
(* operator, OpInv, and the bounds of the pool.                            *)
(***************************************************************************)

\* One operator's books: exact, with the charge of a finished allocation cleared,
\* and with a lease that is neither given up early nor reused.
OpInv(o) ==
    /\ reserved[o] = Held(o)
    /\ closing[o] => closed[o]
    /\ lease[o] = "none" => ~closed[o] /\ reserved[o] = 0
    /\ lease[o] = "returned" => closed[o] /\ reserved[o] = 0
    /\ charge[o].phase = "none" => charge[o].transferred = 0 /\ charge[o].additional = 0
    /\ charge[o].phase = "undone" => charge[o].transferred = 0

IInv == TypeOK /\ WithinBudget /\ \A o \in Operators : OpInv(o)

\* A leaf is tried with SMT, with Zenon, and then with SMT for longer.
USE SMT, Zenon, SMTT(20), SMTT(40)

USE DEF managerVars, nativeVars, NoCharge, Charges, Bytes

\* Every step, of any operator or of the rest of the slot, keeps the invariant.
LEMMA Invariance == IInv /\ [Next]_vars => IInv'
<1> SUFFICES ASSUME IInv, [Next]_vars PROVE IInv'
  OBVIOUS
<1> USE BudgetAssumption
<1>1. ASSUME NEW o \in Operators, Open(o) PROVE IInv'
  BY <1>1 DEF IInv, TypeOK, WithinBudget, OpInv, Held, Open
<1>2. ASSUME NEW o \in Operators, FinishArrowTransfer(o) PROVE IInv'
  <2>1. TypeOK /\ WithinBudget /\ OpInv(o) /\ charge[o] \in Charges
    BY DEF IInv, TypeOK
  <2>2. TypeOK' /\ WithinBudget'
    BY <1>2, <2>1 DEF TypeOK, WithinBudget, FinishArrowTransfer, Return, Release
  <2>3. ASSUME NEW p \in Operators, p # o PROVE OpInv(p)'
    BY <1>2, <2>3 DEF IInv, TypeOK, OpInv, Held, FinishArrowTransfer, Return, Release
  <2>4. OpInv(o)'
    BY <1>2, <2>1 DEF TypeOK, OpInv, Held, FinishArrowTransfer, Return, Release
  <2> QED BY <2>2, <2>3, <2>4 DEF IInv
<1>3. ASSUME NEW o \in Operators, OnAllocation(o) PROVE IInv'
  BY <1>3 DEF IInv, TypeOK, WithinBudget, OpInv, Held, OnAllocation
<1>4. ASSUME NEW o \in Operators, OnFailedAllocation(o) PROVE IInv'
  <2>1. TypeOK /\ WithinBudget /\ OpInv(o) /\ charge[o] \in Charges
    BY DEF IInv, TypeOK
  <2>2. TypeOK' /\ WithinBudget'
    BY <1>4, <2>1 DEF TypeOK, WithinBudget, OnFailedAllocation
  <2>3. ASSUME NEW p \in Operators, p # o PROVE OpInv(p)'
    BY <1>4, <2>3 DEF IInv, TypeOK, OpInv, Held, OnFailedAllocation
  <2>4. OpInv(o)'
    BY <1>4, <2>1 DEF TypeOK, OpInv, Held, OnFailedAllocation
  <2> QED BY <2>2, <2>3, <2>4 DEF IInv
<1>5. ASSUME NEW o \in Operators, ReleaseAdditional(o) PROVE IInv'
  <2>1. TypeOK /\ WithinBudget /\ OpInv(o) /\ charge[o] \in Charges
    BY DEF IInv, TypeOK
  <2>2. TypeOK' /\ WithinBudget'
    BY <1>5, <2>1 DEF TypeOK, WithinBudget, ReleaseAdditional, Return, Release
  <2>3. ASSUME NEW p \in Operators, p # o PROVE OpInv(p)'
    BY <1>5, <2>3 DEF IInv, TypeOK, OpInv, Held, ReleaseAdditional, Return, Release
  <2>4. OpInv(o)'
    BY <1>5, <2>1 DEF TypeOK, OpInv, Held, ReleaseAdditional, Return, Release
  <2> QED BY <2>2, <2>3, <2>4 DEF IInv
<1>6. ASSUME NEW o \in Operators, CloseLease(o) PROVE IInv'
  BY <1>6 DEF IInv, TypeOK, WithinBudget, OpInv, Held, CloseLease
<1>7. ASSUME NEW o \in Operators, Close(o) PROVE IInv'
  BY <1>7 DEF IInv, TypeOK, WithinBudget, OpInv, Held, Close, Return
<1>8. ASSUME NEW o \in Operators, NEW bytes \in Bytes, ShrinkScratch(o, bytes) PROVE IInv'
  BY <1>8 DEF IInv, TypeOK, WithinBudget, OpInv, Held, ShrinkScratch, Return, Release
<1>9. ASSUME NEW o \in Operators, NEW bytes \in Bytes, DropOutput(o, bytes) PROVE IInv'
  BY <1>9 DEF IInv, TypeOK, WithinBudget, OpInv, Held, DropOutput, Return, Release
<1>10. ASSUME NEW o \in Operators, NEW bytes \in Bytes, PoolShrink(o, bytes) PROVE IInv'
  BY <1>10 DEF IInv, TypeOK, WithinBudget, OpInv, Held, PoolShrink, Return, Release
<1>11. ASSUME NEW o \in Operators, NEW bytes \in Bytes, OnRelease(o, bytes) PROVE IInv'
  BY <1>11 DEF IInv, TypeOK, WithinBudget, OpInv, Held, OnRelease, Return, Release
<1>12. ASSUME NEW o \in Operators, NEW bytes \in Bytes, GrowScratch(o, bytes) PROVE IInv'
  BY <1>12 DEF IInv, TypeOK, WithinBudget, OpInv, Held, GrowScratch, TryReserve
<1>13. ASSUME NEW o \in Operators, NEW bytes \in Bytes, PoolGrow(o, bytes) PROVE IInv'
  BY <1>13 DEF IInv, TypeOK, WithinBudget, OpInv, Held, PoolGrow, TryReserve
<1>14. ASSUME NEW o \in Operators, NEW bytes \in Bytes, Split(o, bytes) PROVE IInv'
  BY <1>14 DEF IInv, TypeOK, WithinBudget, OpInv, Held, Split
<1>15. ASSUME NEW o \in Operators, NEW bytes \in Bytes, GrowFrom(o, bytes) PROVE IInv'
  BY <1>15 DEF IInv, TypeOK, WithinBudget, OpInv, Held, GrowFrom
<1>16. ASSUME NEW o \in Operators, NEW bytes \in Bytes, TransferToArrow(o, bytes) PROVE IInv'
  BY <1>16 DEF IInv, TypeOK, WithinBudget, OpInv, Held, TransferToArrow
<1>17. ASSUME NEW o \in Operators, NEW bytes \in Bytes, OnPreAllocation(o, bytes) PROVE IInv'
  BY <1>17 DEF IInv, TypeOK, WithinBudget, OpInv, Held, OnPreAllocation, TryReserve
<1>18. CASE OthersReserve \/ OthersRelease
  BY <1>18 DEF IInv, TypeOK, WithinBudget, OpInv, Held, OthersReserve, OthersRelease
<1>19. CASE UNCHANGED vars
  BY <1>19 DEF IInv, TypeOK, WithinBudget, OpInv, Held, vars
<1> QED
  BY <1>1, <1>2, <1>3, <1>4, <1>5, <1>6, <1>7, <1>8, <1>9, <1>10, <1>11, <1>12, <1>13, <1>14, <1>15, <1>16, <1>17, <1>18, <1>19 DEF Next, AcquireStep, ReturnStep

\* The initial state has the invariant.
LEMMA InitialInvariant == Init => IInv
  BY BudgetAssumption DEF Init, IInv, TypeOK, WithinBudget, OpInv, Held

\* The invariant holds in every reachable state.
LEMMA InvariantHolds == Safety => []IInv
  BY InitialInvariant, Invariance, PTL DEF Safety

\* Types, with no owner ever charged a negative amount.
THEOREM TypeCorrect == Safety => []TypeOK
<1>1. IInv => TypeOK
  BY DEF IInv
<1> QED
  BY <1>1, InvariantHolds, PTL

\* What each operator has reserved is exactly what its native and Arrow owners,
\* its pending transfer and its unfinished allocation hold, through splits,
\* transfers, failed allocations and releases after close.
THEOREM AccountsAreExact == Safety => []ExactAccounting
<1>1. IInv => ExactAccounting
  BY DEF IInv, OpInv, ExactAccounting
<1> QED
  BY <1>1, InvariantHolds, PTL

\* The operators together keep within the slot's OPERATOR allowance, and with the
\* rest of the slot within its managed memory.
THEOREM BudgetIsKept == Safety => []WithinBudget
<1>1. IInv => WithinBudget
  BY DEF IInv
<1> QED
  BY <1>1, InvariantHolds, PTL

\* No lease on the shared pool is given up while memory of its operator is out.
THEOREM LeaseIsHeldWhileNeeded == Safety => []LeaseCoversMemory
<1>1. IInv => LeaseCoversMemory
  BY DEF IInv, TypeOK, OpInv, LeaseCoversMemory
<1> QED
  BY <1>1, InvariantHolds, PTL

==============================================================================
