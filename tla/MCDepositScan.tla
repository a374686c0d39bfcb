--------------------------- MODULE MCDepositScan ---------------------------
(***************************************************************************)
(* Every log of up to MaxEntries entries over a few blocks and totals, so  *)
(* that deposits, payouts, zero deposits, unparsable destinations and      *)
(* several entries of one block come in every order.                       *)
(***************************************************************************)
EXTENDS DepositScan

CONSTANTS MaxEntries, MaxTotal

MCStrdest == {"alice", "garbage"}
MCAddress == {"alice"}

MCEntry == [block : 1 .. MaxMainHeight, total : 0 .. MaxTotal, strdest : MCStrdest]

MCLogs ==
    {l \in UNION {[1 .. n -> MCEntry] : n \in 0 .. MaxEntries} :
        \A i \in 1 .. (Len(l) - 1) : l[i].block <= l[i + 1].block}
=============================================================================
