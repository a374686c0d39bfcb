------------------------------ MODULE Archive ------------------------------
(***************************************************************************)
(* The archive of one node (src/archive.rs): headers by height, bodies by  *)
(* height, and the height of each header by its hash.                      *)
(*                                                                         *)
(* An element of Header stands for a header's contents and for its hash at *)
(* once.  The database of headers has no gaps, so it is a sequence.        *)
(***************************************************************************)
EXTENDS Types

CONSTANTS
    Header,        \* the headers that can ever be built
    ZeroHash,      \* [0; 32], the hash before the first header
    HeaderRoot,    \* [Header -> MerkleRoot], merkle_root
    PrevSideHash,  \* [Header -> Header \cup {ZeroHash}], prev_side_hash
    HeaderHeight,  \* [Header -> Nat], the length of the chain a header ends
    MaxArchived    \* bound: the headers appended

(* A header contains the hash of the one before it, so chains of headers are
   finite and a header knows, in effect, its height. *)
ASSUME HeaderAssumption ==
    /\ ZeroHash \notin Header
    /\ PrevSideHash \in [Header -> Header \cup {ZeroHash}]
    /\ HeaderHeight \in [Header -> Nat]
    /\ \A h \in Header :
          HeaderHeight[h] = IF PrevSideHash[h] = ZeroHash THEN 1
                            ELSE HeaderHeight[PrevSideHash[h]] + 1

ASSUME MaxArchivedAssumption == MaxArchived \in Nat

VARIABLES
    headers,         \* height -> header
    bodies,          \* height -> body
    hash_to_height   \* header hash -> height

archiveVars == <<headers, bodies, hash_to_height>>

get_height == Len(headers)

get_best_hash == IF headers = <<>> THEN ZeroHash ELSE headers[Len(headers)]

ArchiveInit ==
    /\ headers = <<>>
    /\ bodies = <<>>
    /\ hash_to_height = <<>>

(* The database put: key k maps to v, whether or not it was there. *)
Put(db, k, v) == [x \in DOMAIN db \cup {k} |-> IF x = k THEN v ELSE db[x]]

(* Mutants of append_header: any header is appended; the index is given the
   height before the append. *)
append_any_header(header) ==
    /\ headers' = Append(headers, header)
    /\ hash_to_height' = Put(hash_to_height, header, get_height + 1)

append_header_old_height(header) ==
    /\ PrevSideHash[header] = get_best_hash
    /\ headers' = Append(headers, header)
    /\ hash_to_height' = Put(hash_to_height, header, get_height)

(* Refuses a header that does not extend the last one. *)
append_header(header) ==
    /\ PrevSideHash[header] = get_best_hash
    /\ headers' = Append(headers, header)
    /\ hash_to_height' = Put(hash_to_height, header, get_height + 1)

(* Mutants of put_body: the body is stored one height after its header's; it
   is stored at the last height. *)
put_body_next(header, body, index) ==
    /\ HeaderRoot[header] = MerkleRoot(body)
    /\ header \in DOMAIN index
    /\ bodies' = Put(bodies, index[header] + 1, body)

put_body_last(header, body, index) ==
    /\ HeaderRoot[header] = MerkleRoot(body)
    /\ header \in DOMAIN index
    /\ bodies' = Put(bodies, Len(headers), body)

(* Refuses a body of another root, and a header the index does not have. *)
put_body(header, body, index) ==
    /\ HeaderRoot[header] = MerkleRoot(body)
    /\ header \in DOMAIN index
    /\ bodies' = Put(bodies, index[header], body)

-----------------------------------------------------------------------------
(* The two operations in database transactions of their own, in any order. *)

AppendHeader ==
    /\ get_height < MaxArchived
    /\ \E header \in Header : append_header(header)
    /\ UNCHANGED bodies

PutBody ==
    /\ \E header \in Header, body \in Body : put_body(header, body, hash_to_height)
    /\ UNCHANGED <<headers, hash_to_height>>

ArchiveNext == AppendHeader \/ PutBody

ArchiveSpec == ArchiveInit /\ [][ArchiveNext]_archiveVars

-----------------------------------------------------------------------------
ArchiveTypeOK ==
    /\ headers \in Seq(Header)
    /\ DOMAIN bodies \subseteq 1 .. Len(headers)
    /\ \A k \in DOMAIN bodies : bodies[k] \in Body
    /\ DOMAIN hash_to_height \subseteq Header

(* The headers form one chain from the zero hash; no height holds a header
   that was built for another one. *)
ChainLinked ==
    \A k \in DOMAIN headers :
        /\ PrevSideHash[headers[k]] = IF k = 1 THEN ZeroHash ELSE headers[k - 1]
        /\ HeaderHeight[headers[k]] = k

(* hash_to_height is the inverse of headers: no header is archived at two
   heights, none is missing from the index, and none in it is unknown. *)
IndexExact ==
    /\ DOMAIN hash_to_height = {headers[k] : k \in DOMAIN headers}
    /\ \A k \in DOMAIN headers : hash_to_height[headers[k]] = k

(* A body is stored at the height of a header that commits to it, however the
   two operations interleave. *)
BodiesMatch ==
    \A k \in DOMAIN bodies :
        k \in DOMAIN headers /\ MerkleRoot(bodies[k]) = HeaderRoot[headers[k]]
=============================================================================
