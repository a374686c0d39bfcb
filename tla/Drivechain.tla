---------------------------- MODULE Drivechain ----------------------------
(***************************************************************************)
(* What the sidechain reads from the mainchain (src/drivechain/mod.rs):    *)
(* the deposits between two mainchain blocks.                              *)
(*                                                                         *)
(* The mainchain keeps every deposit to (and payout from) this sidechain's *)
(* escrow as an entry of a log that carries the escrow's running total and *)
(* not the amount moved, so the amount of a deposit is a difference of two *)
(* entries.  Mainchain blocks are named by their heights; 0 is no block.   *)
(***************************************************************************)
EXTENDS Integers, Sequences, FiniteSets

CONSTANTS
    Strdest,  \* the destination strings deposits carry
    Address   \* those that parse as a sidechain address

ASSUME AddressAssumption == Address \subseteq Strdest

IsDepositLog(log) ==
    /\ log \in Seq([block : Nat \ {0}, total : Nat, strdest : Strdest])
    /\ \A i, j \in DOMAIN log : i <= j => log[i].block <= log[j].block

Parses(log, i) == log[i].strdest \in Address

-----------------------------------------------------------------------------
(* What an entry is worth, from the whole log: what it adds to the total. *)

TotalBefore(log, i)      == IF i = 1 THEN 0 ELSE log[i - 1].total
IsIncrease(log, i)       == log[i].total >= TotalBefore(log, i)
DepositIncrement(log, i) == log[i].total - TotalBefore(log, i)

-----------------------------------------------------------------------------
(* get_deposit_outputs: what the node makes of the part it is shown. *)

(* listsidechaindepositsbyblock: the entries of the blocks start .. end. *)
ListDeposits(log, start, end) ==
    {i \in DOMAIN log : start <= log[i].block /\ log[i].block <= end}

(* The loop leaves every entry, on each of its three paths, with last_total
   set to that entry's total. *)
LastTotal(log, list, i) == IF i - 1 \in list THEN log[i - 1].total ELSE 0

(* Mutants of NewDeposits: the start block is not skipped; payouts are not. *)
NewDepositsWithStart(log, start, end) ==
    LET list == ListDeposits(log, start, end)
    IN  {i \in list : log[i].total >= LastTotal(log, list, i)}

NewDepositsWithPayouts(log, start, end) ==
    {i \in ListDeposits(log, start, end) : log[i].block # start}

(* Entries of the start block were credited by the scan that ended with it,
   and an entry that lowers the total is a payout. *)
NewDeposits(log, start, end) ==
    LET list == ListDeposits(log, start, end)
    IN  {i \in list : log[i].block # start /\ log[i].total >= LastTotal(log, list, i)}

(* A deposit whose address does not parse still moves the scan forward. *)
DepositOutputs(log, start, end) == {i \in NewDeposits(log, start, end) : Parses(log, i)}

DepositValue(log, start, end, i) ==
    log[i].total - LastTotal(log, ListDeposits(log, start, end), i)

(* Mutant of IsDepositBlock: the block of the first deposit seen. *)
IsFirstDepositBlock(log, start, end, block) ==
    LET new == NewDeposits(log, start, end)
    IN  \/ new = {} /\ block = start
        \/ \E i \in new : block = log[i].block /\ \A j \in new : j >= i

(* deposit_block_hash, and start where it is None and nothing is stored. *)
IsDepositBlock(log, start, end, block) ==
    LET new == NewDeposits(log, start, end)
    IN  \/ new = {} /\ block = start
        \/ \E i \in new : block = log[i].block /\ \A j \in new : j <= i
=============================================================================
