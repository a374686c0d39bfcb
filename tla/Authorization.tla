--------------------------- MODULE Authorization ---------------------------
(***************************************************************************)
(* verify_authorizations (src/authorization.rs): the authorizations of a   *)
(* block, each zipped with the transaction it must sign, are dealt out to  *)
(* packages, one for each thread, and the threads verify their packages in *)
(* parallel.  The call accepts, rejects or panics.                         *)
(*                                                                         *)
(* An authorization is the transaction it signs: whose key signs is        *)
(* validate_body's business (State).  A package is the set of the          *)
(* positions it takes from the list of pairs.                              *)
(***************************************************************************)
EXTENDS Integers, SequencesExt, FiniteSetsExt

CONSTANTS
    Transaction,
    InputNumber,  \* [Transaction -> Nat], the length of its inputs
    Body,         \* bound: the blocks verified
    Threads       \* bound: what current_num_threads may return

ASSUME ThreadsAssumption == Threads \subseteq Nat \ {0}
ASSUME BodyAssumption ==
    /\ \A t \in Transaction : InputNumber[t] \in Nat
    /\ \A b \in Body : b.transactions \in Seq(Transaction) /\ b.authorizations \in Seq(Transaction)

VARIABLES
    body,
    num_threads,
    packages,   \* sequence of sets of positions
    verified,   \* the packages whose signatures verify_batch has accepted
    result      \* "packing", "verifying", "accepted", "rejected" or "panicked"

verifyVars == <<body, num_threads, packages, verified, result>>

-----------------------------------------------------------------------------
(* Mutant of Messages: each transaction is listed once, not once per input. *)
MessagesOnce(b) == b.transactions

(* The transactions, each as often as it has inputs. *)
Messages(b) ==
    FlattenSeq([k \in DOMAIN b.transactions |->
        [i \in 1 .. InputNumber[b.transactions[k]] |-> b.transactions[k]]])

(* Iter::zip ends with the shorter list. *)
NumPairs(b) == Min({Len(b.authorizations), Len(Messages(b))})

PackageSize == Len(body.authorizations) \div num_threads

(* verify_batch on a package. *)
Signed(b, package) == \A p \in package : b.authorizations[p] = Messages(b)[p]

(* The signatures in all packages, package by package. *)
Packed(s) == UNION {{k} \X s[k] : k \in DOMAIN s}

-----------------------------------------------------------------------------
VerifyInit ==
    /\ body \in Body
    /\ num_threads \in Threads
    /\ packages = <<>>
    /\ verified = {}
    /\ result = "packing"

(* One round of the loop; a slice that ends beyond the pairs panics. *)
FillPackage ==
    /\ result = "packing" /\ Len(packages) < num_threads
    /\ LET first == Len(packages) * PackageSize
           end == first + PackageSize
       IN  \/ /\ end > NumPairs(body)
              /\ result' = "panicked"
              /\ UNCHANGED packages
           \/ /\ end <= NumPairs(body)
              /\ packages' = Append(packages, first + 1 .. end)
              /\ UNCHANGED result
    /\ UNCHANGED <<body, num_threads, verified>>

(* Mutant of FillRest: no rest, and nothing asserted. *)
FillNoRest ==
    /\ result = "packing" /\ Len(packages) = num_threads
    /\ result' = "verifying"
    /\ UNCHANGED <<body, num_threads, packages, verified>>

(* The last package takes the rest; then the number packed is asserted. *)
FillRest ==
    /\ result = "packing" /\ Len(packages) = num_threads
    /\ packages' = [packages EXCEPT ![num_threads] =
                        @ \cup (num_threads * PackageSize + 1 .. NumPairs(body))]
    /\ result' = IF Cardinality(Packed(packages')) = Len(body.authorizations)
                 THEN "verifying" ELSE "panicked"
    /\ UNCHANGED <<body, num_threads, verified>>

VerifyPackage(k) ==
    /\ result = "verifying" /\ k \notin verified
    /\ \/ /\ Signed(body, packages[k])
          /\ verified' = verified \cup {k}
          /\ UNCHANGED result
       \/ /\ ~Signed(body, packages[k])
          /\ result' = "rejected"
          /\ UNCHANGED verified
    /\ UNCHANGED <<body, num_threads, packages>>

Accept ==
    /\ result = "verifying" /\ verified = DOMAIN packages
    /\ result' = "accepted"
    /\ UNCHANGED <<body, num_threads, packages, verified>>

VerifyNext ==
    \/ FillPackage \/ FillRest \/ Accept
    \/ \E k \in DOMAIN packages : VerifyPackage(k)

VerifySpec == VerifyInit /\ [][VerifyNext]_verifyVars

-----------------------------------------------------------------------------
(* Properties. *)

(* Once packed, every pair is in exactly one package, whatever the number of
   threads does not divide: none escapes verification, none is counted twice
   in what the assertion adds up. *)
EachPairPacked ==
    result \in {"verifying", "accepted", "rejected"} =>
        /\ UNION {packages[k] : k \in DOMAIN packages} = 1 .. Len(body.authorizations)
        /\ \A k, l \in DOMAIN packages : k # l => packages[k] \cap packages[l] = {}

(* The inputs of some of a block's transactions, one by one. *)
InputsOf(b, ks) == UNION {{k} \X (1 .. InputNumber[b.transactions[k]]) : k \in ks}

(* The position, among all inputs of a block, of input i of its transaction k. *)
Position(b, k, i) == Cardinality(InputsOf(b, 1 .. k - 1)) + i

NumInputs(b) == Cardinality(InputsOf(b, DOMAIN b.transactions))

(* Every authorization signs the transaction whose input it stands for. *)
SignsItsInput(b) ==
    \A k \in DOMAIN b.transactions : \A i \in 1 .. InputNumber[b.transactions[k]] :
        Position(b, k, i) \in DOMAIN b.authorizations =>
            b.authorizations[Position(b, k, i)] = b.transactions[k]

(* The verdict is that of one thread that looks at every authorization: packing
   and threads change nothing.  The call panics, and does not reject, exactly
   if there are more authorizations than inputs. *)
VerdictExact ==
    /\ result = "accepted" => SignsItsInput(body)
    /\ result = "rejected" => ~SignsItsInput(body)
    /\ result \in {"accepted", "rejected"} => Len(body.authorizations) <= NumInputs(body)
    /\ result = "panicked" => Len(body.authorizations) > NumInputs(body)
=============================================================================
