------------------------------- MODULE Miner -------------------------------
(***************************************************************************)
(* Blind merged mining (src/miner.rs, and verify_bmm of                    *)
(* src/drivechain/mod.rs): several miners bid for their blocks, the        *)
(* mainchain takes one bid with each of its blocks, and a miner asks       *)
(* whether its own was taken.                                              *)
(*                                                                         *)
(* Both calls take the miner by exclusive reference, so one miner's calls  *)
(* follow each other; the mainchain goes on while they await it.           *)
(***************************************************************************)
EXTENDS Integers, Sequences

CONSTANTS
    Miners,
    Header,     \* the headers that miners build
    PrevMain,   \* [Header -> Nat], the height of its prev_main_hash
    MaxMain     \* bound: the height of the mainchain

ASSUME HeaderAssumption == PrevMain \in [Header -> Nat] /\ MaxMain \in Nat

VARIABLES
    main,      \* the mainchain: with each block the bid it takes, {} or {header}
    bids,      \* miner -> history: the headers it has bid for
    attempt,   \* miner -> the header whose attempt_bmm awaits the mainchain, or none
    block,     \* miner -> Miner::block: {} or {header}
    verifying, \* miner -> whether its confirm_bmm awaits verifybmm
    returned,  \* miner -> history: the headers confirm_bmm has returned
    lost       \* miner -> history: headers bid for, and replaced or not kept

minerVars == <<main, bids, attempt, block, verifying, returned, lost>>

MinerInit ==
    /\ main = <<>>
    /\ bids = [m \in Miners |-> {}]
    /\ attempt = [m \in Miners |-> {}]
    /\ block = [m \in Miners |-> {}]
    /\ verifying = [m \in Miners |-> FALSE]
    /\ returned = [m \in Miners |-> {}]
    /\ lost = [m \in Miners |-> {}]

Free(m) == attempt[m] = {} /\ ~verifying[m]

-----------------------------------------------------------------------------
(* The mainchain: its next block takes at most one of the bids whose prevbytes
   are of the block before it. *)
MainBlock ==
    /\ Len(main) < MaxMain
    /\ \E S \in SUBSET UNION {bids[m] : m \in Miners} :
        /\ \A g, h \in S : g = h
        /\ \A h \in S : PrevMain[h] = Len(main)
        /\ main' = Append(main, S)
    /\ UNCHANGED <<bids, attempt, block, verifying, returned, lost>>

-----------------------------------------------------------------------------
(* attempt_bmm: the bid reaches the mainchain; an error before that changes
   nothing. *)
AttemptBmm(m, h) ==
    /\ Free(m)
    /\ PrevMain[h] <= Len(main)
    /\ bids' = [bids EXCEPT ![m] = @ \cup {h}]
    /\ attempt' = [attempt EXCEPT ![m] = {h}]
    /\ UNCHANGED <<main, block, verifying, returned, lost>>

(* The answer is a txid, and the root is the body's: the block is kept in place
   of any other. *)
AttemptKeeps(m) ==
    /\ attempt[m] # {}
    /\ block' = [block EXCEPT ![m] = attempt[m]]
    /\ attempt' = [attempt EXCEPT ![m] = {}]
    /\ lost' = [lost EXCEPT ![m] = (@ \cup block[m]) \ attempt[m]]
    /\ UNCHANGED <<main, bids, verifying, returned>>

(* The answer is lost or no txid, or the root is not the body's: the bid was
   made, and its block is not kept. *)
AttemptFails(m) ==
    /\ attempt[m] # {}
    /\ attempt' = [attempt EXCEPT ![m] = {}]
    /\ lost' = [lost EXCEPT ![m] = @ \cup attempt[m]]
    /\ UNCHANGED <<main, bids, block, verifying, returned>>

-----------------------------------------------------------------------------
(* verify_bmm: getblock gives the block after prev_main_hash, if there is one,
   and verifybmm says whether that block takes the header. *)
HasNextBlock(h) == PrevMain[h] < Len(main)

Mined(h) == HasNextBlock(h) /\ h \in main[PrevMain[h] + 1]

(* Mutant of ConfirmBmm: the block is taken before it is verified. *)
ConfirmBmmTaking(m) ==
    /\ Free(m)
    /\ \E h \in block[m] : HasNextBlock(h)
    /\ verifying' = [verifying EXCEPT ![m] = TRUE]
    /\ block' = [block EXCEPT ![m] = {}]
    /\ UNCHANGED <<main, bids, attempt, returned, lost>>

(* confirm_bmm with a block: it has to await two answers. *)
ConfirmBmm(m) ==
    /\ Free(m)
    /\ \E h \in block[m] : HasNextBlock(h)
    /\ verifying' = [verifying EXCEPT ![m] = TRUE]
    /\ UNCHANGED <<main, bids, attempt, block, returned, lost>>

(* Mutant of ConfirmReturns: verifybmm's error is dropped. *)
ConfirmReturnsAnyway(m) ==
    /\ verifying[m]
    /\ verifying' = [verifying EXCEPT ![m] = FALSE]
    /\ block' = [block EXCEPT ![m] = {}]
    /\ returned' = [returned EXCEPT ![m] = @ \cup block[m]]
    /\ UNCHANGED <<main, bids, attempt, lost>>

ConfirmReturns(m) ==
    /\ verifying[m] /\ \A h \in block[m] : Mined(h)
    /\ verifying' = [verifying EXCEPT ![m] = FALSE]
    /\ block' = [block EXCEPT ![m] = {}]
    /\ returned' = [returned EXCEPT ![m] = @ \cup block[m]]
    /\ UNCHANGED <<main, bids, attempt, lost>>

(* Not mined, or the mainchain does not answer: the block is kept. *)
ConfirmFails(m) ==
    /\ verifying[m]
    /\ verifying' = [verifying EXCEPT ![m] = FALSE]
    /\ UNCHANGED <<main, bids, attempt, block, returned, lost>>

MinerNext ==
    \/ MainBlock
    \/ \E m \in Miners :
        \/ \E h \in Header : AttemptBmm(m, h)
        \/ AttemptKeeps(m) \/ AttemptFails(m)
        \/ ConfirmBmm(m) \/ ConfirmReturns(m) \/ ConfirmFails(m)

MinerSpec == MinerInit /\ [][MinerNext]_minerVars

-----------------------------------------------------------------------------
(* Properties. *)

MinerTypeOK ==
    /\ main \in Seq(SUBSET Header)
    /\ \A n \in DOMAIN main : \A g, h \in main[n] : g = h
    /\ bids \in [Miners -> SUBSET Header] /\ attempt \in [Miners -> SUBSET Header]
    /\ block \in [Miners -> SUBSET Header] /\ verifying \in [Miners -> BOOLEAN]
    /\ returned \in [Miners -> SUBSET Header] /\ lost \in [Miners -> SUBSET Header]
    /\ \A m \in Miners :
        /\ \A g, h \in attempt[m] : g = h
        /\ attempt[m] \cup block[m] \cup returned[m] \cup lost[m] \subseteq bids[m]
        /\ verifying[m] => attempt[m] = {} /\ block[m] # {}

(* What confirm_bmm returns was taken by the mainchain block that follows the
   header's prev_main_hash, although attempts and mainchain blocks come between
   the bid, its answer and the two answers of the verification. *)
ReturnedWereMined == \A m \in Miners : \A h \in returned[m] : Mined(h)

(* For each mainchain block at most one sidechain block is returned, by
   whichever miners. *)
OneBlockPerMainBlock ==
    \A m, n \in Miners : \A g \in returned[m], h \in returned[n] :
        PrevMain[g] = PrevMain[h] => g = h

(* A header that was bid for and taken is still to be returned, or has been,
   unless a later attempt replaced it or its own attempt failed: a confirmation
   that fails loses nothing. *)
WinnersAccountedFor ==
    \A m \in Miners : \A h \in bids[m] :
        Mined(h) => h \in attempt[m] \cup block[m] \cup returned[m] \cup lost[m]
=============================================================================
