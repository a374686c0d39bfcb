-------------------------- MODULE DepositScanProof --------------------------
(***************************************************************************)
(* The scan credits every deposit exactly once, for every mainchain log    *)
(* and every order of the blocks asked for.                                *)
(*                                                                         *)
(* The argument: ResumePoint makes every entry of a block after the stored *)
(* one come with its predecessor, so the amount computed from the partial  *)
(* list is the amount of the whole log; and every deposit at or before the *)
(* stored block is at or before scanned, hence credited already.           *)
(***************************************************************************)
EXTENDS DepositScan, TLAPS

(* A log is a sequence of blocks and totals in block order. *)
LEMMA LogFacts ==
    ASSUME NEW l, IsDepositLog(l)
    PROVE  /\ DOMAIN l = 1 .. Len(l) /\ Len(l) \in Nat
           /\ \A i \in DOMAIN l : /\ l[i].block \in Nat \ {0}
                                  /\ l[i].total \in Nat
           /\ \A i, j \in DOMAIN l : i <= j => l[i].block <= l[j].block
<1> DEFINE Entry == [block : Nat \ {0}, total : Nat, strdest : Strdest]
<1>1. l \in Seq(Entry) /\ \A i, j \in DOMAIN l : i <= j => l[i].block <= l[j].block
  BY DEF IsDepositLog
<1>2. DOMAIN l = 1 .. Len(l) /\ Len(l) \in Nat /\ \A i \in DOMAIN l : l[i] \in Entry
  <2> HIDE DEF Entry
  <2> QED
    BY <1>1
<1> QED
  BY <1>1, <1>2

(* An entry of a later block than the stored one is listed together with its
   predecessor, unless it is the first of the log. *)
LEMMA ListedWithPredecessor ==
    ASSUME NEW l, IsDepositLog(l), NEW start \in Nat, NEW end \in Nat,
           start = 0 \/ \E m \in DOMAIN l : start = l[m].block,
           NEW i \in ListDeposits(l, start, end), l[i].block # start
    PROVE  /\ LastTotal(l, ListDeposits(l, start, end), i) = TotalBefore(l, i)
           /\ TotalBefore(l, i) \in Nat
           /\ start < l[i].block
<1>1. i \in DOMAIN l /\ start < l[i].block /\ l[i].block <= end
  BY LogFacts DEF ListDeposits
<1>2. CASE i = 1
  <2>1. i - 1 \notin DOMAIN l
    BY <1>2, LogFacts
  <2> QED
    BY <1>1, <1>2, <2>1 DEF ListDeposits, LastTotal, TotalBefore
<1>3. CASE i # 1
  <2>1. i - 1 \in DOMAIN l /\ l[i - 1].block <= l[i].block
    BY <1>1, <1>3, LogFacts
  <2>2. start <= l[i - 1].block
    <3>1. CASE start = 0
      BY <2>1, <3>1, LogFacts
    <3>2. CASE start # 0
      <4>1. PICK m \in DOMAIN l : start = l[m].block
        BY <3>2
      <4>2. m <= i - 1
        BY <1>1, <4>1, LogFacts
      <4> QED
        BY <2>1, <4>1, <4>2, LogFacts
    <3> QED
      BY <3>1, <3>2
  <2>3. i - 1 \in ListDeposits(l, start, end)
    BY <1>1, <2>1, <2>2, LogFacts DEF ListDeposits
  <2> QED
    BY <1>1, <1>3, <2>1, <2>3, LogFacts DEF LastTotal, TotalBefore
<1> QED
  BY <1>2, <1>3

(* So the deposits a scan sees are the increases of the blocks after the
   stored one, and their values are those of the whole log. *)
LEMMA NewDepositsExact ==
    ASSUME NEW l, IsDepositLog(l), NEW start \in Nat, NEW end \in Nat,
           start = 0 \/ \E m \in DOMAIN l : start = l[m].block
    PROVE  /\ NewDeposits(l, start, end) =
                 {i \in DOMAIN l : start < l[i].block /\ l[i].block <= end /\ IsIncrease(l, i)}
           /\ \A i \in NewDeposits(l, start, end) :
                 /\ DepositValue(l, start, end, i) = DepositIncrement(l, i)
                 /\ DepositIncrement(l, i) \in Nat
<1>1. ASSUME NEW i \in DOMAIN l
      PROVE  i \in NewDeposits(l, start, end) <=>
                 start < l[i].block /\ l[i].block <= end /\ IsIncrease(l, i)
  <2>1. CASE i \in ListDeposits(l, start, end) /\ l[i].block # start
    BY <2>1, LogFacts, ListedWithPredecessor DEF NewDeposits, ListDeposits, IsIncrease
  <2>2. CASE ~(i \in ListDeposits(l, start, end) /\ l[i].block # start)
    BY <2>2, LogFacts DEF NewDeposits, ListDeposits
  <2> QED
    BY <2>1, <2>2
<1>2. ASSUME NEW i \in NewDeposits(l, start, end)
      PROVE  /\ DepositValue(l, start, end, i) = DepositIncrement(l, i)
             /\ DepositIncrement(l, i) \in Nat
  <2>1. i \in ListDeposits(l, start, end) /\ l[i].block # start /\ i \in DOMAIN l
    BY DEF NewDeposits, ListDeposits
  <2>2. IsIncrease(l, i)
    BY <1>1, <2>1
  <2> QED
    BY <2>1, <2>2, LogFacts, ListedWithPredecessor
    DEF DepositValue, DepositIncrement, IsIncrease
<1> QED
  BY <1>1, <1>2 DEF NewDeposits, ListDeposits

-----------------------------------------------------------------------------

ScanInv == ScanTypeOK /\ DepositsExact /\ ResumePoint

(* No scan has credited anything at first. *)
LEMMA ScanInitInv == ScanInit => ScanInv
<1> SUFFICES ASSUME ScanInit PROVE ScanInv
  OBVIOUS
<1>1. IsDepositLog(log)
  BY LogsAssumption DEF ScanInit
<1>2. \A i \in DOMAIN log : log[i].block \in Nat \ {0}
  BY <1>1, LogFacts
<1> QED
  BY <1>2 DEF ScanInit, ScanInv, ScanTypeOK, DepositsExact, ResumePoint

(* One fetch keeps the invariant. *)
LEMMA FetchInv ==
    ASSUME ScanInv, NEW end \in Nat, Fetch(end)
    PROVE  ScanInv'
<1> DEFINE start == last_deposit_block
           new   == NewDeposits(log, start, end)
<1> USE DEF ScanInv, ScanTypeOK
<1>1. IsDepositLog(log) /\ log' = log /\ log \in Logs
  BY LogsAssumption DEF Fetch
<1>2. start \in Nat /\ scanned \in Nat /\ (start = 0 \/ \E m \in DOMAIN log : start = log[m].block)
  BY DEF ResumePoint
<1>3. /\ new = {i \in DOMAIN log : start < log[i].block /\ log[i].block <= end /\ IsIncrease(log, i)}
      /\ \A i \in new : /\ DepositValue(log, start, end, i) = DepositIncrement(log, i)
                        /\ DepositIncrement(log, i) \in Nat
  BY <1>1, <1>2, NewDepositsExact
<1>4. scanned' \in Nat /\ scanned' >= scanned /\ scanned' >= end /\ scanned' \in {scanned, end}
  BY <1>2 DEF Fetch
<1>5. ASSUME NEW i \in DOMAIN log
      PROVE  credited'[i] = IF log[i].block <= scanned' /\ IsIncrease(log, i) /\ Parses(log, i)
                            THEN DepositIncrement(log, i) ELSE 0
  <2> log[i].block \in Nat
    BY <1>1, LogFacts
  <2>1. CASE i \in new /\ Parses(log, i)
    <3>1. start < log[i].block /\ log[i].block <= end /\ IsIncrease(log, i)
      BY <1>3, <2>1
    <3>2. ~(log[i].block <= scanned)
      BY <1>2, <3>1 DEF ResumePoint
    <3>3. credited[i] = 0
      BY <3>2 DEF DepositsExact
    <3>4. credited'[i] = DepositIncrement(log, i)
      BY <1>3, <2>1, <3>3 DEF Fetch, DepositOutputs
    <3> QED
      BY <1>4, <2>1, <3>1, <3>4
  <2>2. CASE ~(i \in new /\ Parses(log, i))
    <3>1. credited'[i] = credited[i]
      BY <2>2 DEF Fetch, DepositOutputs
    <3>2. CASE log[i].block <= scanned
      BY <1>2, <1>4, <3>1, <3>2 DEF DepositsExact
    <3>3. CASE ~(log[i].block <= scanned)
      <4>1. start < log[i].block
        BY <1>2, <3>3 DEF ResumePoint
      <4>2. ~(log[i].block <= scanned' /\ IsIncrease(log, i) /\ Parses(log, i))
        BY <1>2, <1>3, <1>4, <2>2, <3>3, <4>1
      <4> QED
        BY <3>1, <3>3, <4>2 DEF DepositsExact
    <3> QED
      BY <3>2, <3>3
  <2> QED
    BY <2>1, <2>2
<1>6. DepositsExact'
  BY <1>1, <1>5 DEF DepositsExact, Fetch
<1>7. ResumePoint' /\ last_deposit_block' \in Nat
  <2>1. CASE new = {} /\ last_deposit_block' = start
    <3>1. \A i \in DOMAIN log : log[i].block <= scanned' /\ IsIncrease(log, i) => log[i].block <= start
      BY <1>1, <1>2, <1>3, <1>4, <2>1, LogFacts DEF ResumePoint
    <3> QED
      BY <1>1, <1>2, <1>4, <2>1, <3>1 DEF ResumePoint
  <2>2. CASE \E m \in new : last_deposit_block' = log[m].block /\ \A j \in new : j <= m
    <3>1. PICK m \in new : last_deposit_block' = log[m].block /\ \A j \in new : j <= m
      BY <2>2
    <3>2. m \in DOMAIN log /\ start < log[m].block /\ log[m].block <= end /\ log[m].block \in Nat
      BY <1>1, <1>3, LogFacts
    <3>3. ASSUME NEW i \in DOMAIN log, log[i].block <= scanned', IsIncrease(log, i)
          PROVE  log[i].block <= log[m].block
      <4> log[i].block \in Nat
        BY <1>1, LogFacts
      <4>1. CASE i \in new
        BY <1>1, <3>1, <3>2, <4>1, LogFacts
      <4>2. CASE i \notin new
        BY <1>2, <1>3, <1>4, <3>2, <3>3, <4>2 DEF ResumePoint
      <4> QED
        BY <4>1, <4>2
    <3> QED
      BY <1>1, <1>2, <1>4, <3>1, <3>2, <3>3 DEF ResumePoint
  <2> QED
    BY <2>1, <2>2 DEF Fetch, IsDepositBlock
<1>8. ScanTypeOK'
  <2>1. \A i \in DOMAIN log : credited'[i] \in Nat
    BY <1>3 DEF Fetch, DepositOutputs
  <2> QED
    BY <1>1, <1>4, <1>7, <2>1 DEF Fetch
<1> QED
  BY <1>6, <1>7, <1>8

(* ScanInv is inductive. *)
LEMMA ScanInvariant == ScanSpec => []ScanInv
<1>1. ScanInv /\ [ScanNext]_scanVars => ScanInv'
  <2> SUFFICES ASSUME ScanInv, [ScanNext]_scanVars PROVE ScanInv'
    OBVIOUS
  <2>1. CASE ScanNext
    BY <2>1, FetchInv, MainHeightAssumption DEF ScanNext
  <2>2. CASE UNCHANGED scanVars
    BY <2>2 DEF scanVars, ScanInv, ScanTypeOK, DepositsExact, ResumePoint
  <2> QED
    BY <2>1, <2>2
<1> QED
  BY <1>1, ScanInitInv, PTL DEF ScanSpec

(* The scan's variables keep their types: no value it computes is negative. *)
THEOREM ScanTypeCorrect == ScanSpec => []ScanTypeOK
  BY ScanInvariant, PTL DEF ScanInv

(* get_deposit_outputs, resumed from the stored block however often and to
   whatever end, credits every deposit once with what it added. *)
THEOREM DepositsAreExact == ScanSpec => []DepositsExact
  BY ScanInvariant, PTL DEF ScanInv

(* The stored block never runs ahead of a deposit still to be credited. *)
THEOREM ResumePointIsSafe == ScanSpec => []ResumePoint
  BY ScanInvariant, PTL DEF ScanInv
=============================================================================
