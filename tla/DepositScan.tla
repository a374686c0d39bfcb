---------------------------- MODULE DepositScan ----------------------------
(***************************************************************************)
(* The incremental deposit scan: each block fetches the deposits between   *)
(* last_deposit_block and the mainchain block its header names             *)
(* (Drivechain::get_deposit_outputs), credits them, and stores the block   *)
(* of the last one (State::connect_two_way_peg_data).                      *)
(*                                                                         *)
(* A header may name any mainchain block, an older one than its parent's   *)
(* included: nothing in submit_block compares them.                        *)
(***************************************************************************)
EXTENDS Drivechain

CONSTANTS
    Logs,          \* the mainchain histories considered
    MaxMainHeight  \* bound: the mainchain blocks a header may name

ASSUME LogsAssumption == \A log \in Logs : IsDepositLog(log)
ASSUME MainHeightAssumption == MaxMainHeight \in Nat

VARIABLES
    log,                \* the mainchain's log, fixed
    last_deposit_block, \* the stored block, 0 when None
    credited,           \* history: entry -> the value ever put for it
    scanned             \* history: the newest mainchain block asked for

scanVars == <<log, last_deposit_block, credited, scanned>>

ScanTypeOK ==
    /\ log \in Logs
    /\ last_deposit_block \in Nat
    /\ credited \in [DOMAIN log -> Nat]
    /\ scanned \in Nat

ScanInit ==
    /\ log \in Logs
    /\ last_deposit_block = 0
    /\ credited = [i \in DOMAIN log |-> 0]
    /\ scanned = 0

(* Credit what lies between the stored block and block end. *)
Fetch(end) ==
    LET start   == last_deposit_block
        outputs == DepositOutputs(log, start, end)
    IN  /\ credited' = [i \in DOMAIN log |->
                           IF i \in outputs THEN credited[i] + DepositValue(log, start, end, i)
                                            ELSE credited[i]]
        /\ IsDepositBlock(log, start, end, last_deposit_block')
        /\ scanned' = IF end > scanned THEN end ELSE scanned
        /\ UNCHANGED log

ScanNext == \E end \in 1 .. MaxMainHeight : Fetch(end)

ScanSpec == ScanInit /\ [][ScanNext]_scanVars

-----------------------------------------------------------------------------
(* Every deposit up to the newest block asked for has been credited, once,
   with the amount it added to the escrow, and nothing else has: whatever the
   order of the blocks asked for, with payouts and unparsable destinations in
   between, and with several entries in one block. *)
DepositsExact ==
    credited = [i \in DOMAIN log |->
                   IF log[i].block <= scanned /\ IsIncrease(log, i) /\ Parses(log, i)
                   THEN DepositIncrement(log, i) ELSE 0]

(* The stored block is one the next scan may start from: it is the block of
   an entry, and no deposit between it and the newest block asked for is
   still to come. *)
ResumePoint ==
    /\ last_deposit_block <= scanned
    /\ last_deposit_block = 0 \/ \E i \in DOMAIN log : last_deposit_block = log[i].block
    /\ \A i \in DOMAIN log :
          log[i].block <= scanned /\ IsIncrease(log, i) => log[i].block <= last_deposit_block
=============================================================================
