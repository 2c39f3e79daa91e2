------------------------------- MODULE Lookup -------------------------------
(***************************************************************************)
(* The routing table as lookup.cpp keeps and searches it: update inserts   *)
(* and deletes entries by exact key, prefix_query walks down the prefix    *)
(* lengths and looks every masked address up.  The RIP handler of main.cpp *)
(* writes to the same map, with keys made of what a packet says.           *)
(*                                                                         *)
(* An address is a row of Width bits, the most significant one first.  The *)
(* entry of a key is reduced to a value.                                   *)
(***************************************************************************)
EXTENDS Integers

CONSTANTS
  Width,      \* bits of an address, 32 in the code
  Value,      \* what an entry holds: interface and next hop
  Foreign     \* keys another RIP speaker may announce, besides legal ones

Address == [1 .. Width -> {0, 1}]
Length == 0 .. Width
RouterKey == Address \X Length

\* The address a with all but its first n bits cleared: a & MASK_BE[n].
Mask(a, n) == [b \in 1 .. Width |-> IF b <= n THEN a[b] ELSE 0]

\* A key is a network prefix when no bit behind its length is set.
LegalPrefix(k) == Mask(k[1], k[2]) = k[1]

\* The argument while prefix_query does not run.
NoAddress == [b \in 1 .. Width |-> 0]

ASSUME LookupAssumption == Width \in Nat /\ Foreign \subseteq RouterKey

VARIABLES
  routerTable,   \* the map, as a function on the keys that are in it
  pc,            \* "idle", "loop" inside prefix_query, "done"
  addr,          \* the argument of prefix_query
  len,           \* its loop variable
  answer         \* what it returned: {} or the entry found, as {value}

lookupVars == <<routerTable, pc, addr, len, answer>>

LookupInit ==
  /\ routerTable = <<>>
  /\ pc = "idle" /\ addr = NoAddress /\ len = Width /\ answer = {}

Put(k, v) == [x \in DOMAIN routerTable \cup {k} |-> IF x = k THEN v ELSE routerTable[x]]
Removed(k) == [x \in DOMAIN routerTable \ {k} |-> routerTable[x]]

\* update(true, entry): an entry with the same key is replaced.
Insert(k, v) ==
  /\ pc = "idle"
  /\ routerTable' = Put(k, v)
  /\ UNCHANGED <<pc, addr, len, answer>>

\* update(false, entry), and the erase of the RIP handler.
Delete(k) ==
  /\ pc = "idle"
  /\ routerTable' = Removed(k)
  /\ UNCHANGED <<pc, addr, len, answer>>

\* The RIP handler stores a route under the address and the number of mask bits
\* of the packet; disassemble has checked that the mask is contiguous and did not
\* look at the address.
Rip(k, v) ==
  /\ pc = "idle"
  /\ LegalPrefix(k) \/ k \in Foreign
  /\ routerTable' = Put(k, v)
  /\ UNCHANGED <<pc, addr, len, answer>>

Query(a) ==
  /\ pc = "idle"
  /\ pc' = "loop" /\ addr' = a /\ len' = Width
  /\ UNCHANGED <<routerTable, answer>>

Loop_Bug1 ==                                              \* len > 0
  /\ pc = "loop"
  /\ LET k == <<Mask(addr, len), len>> IN
       IF k \in DOMAIN routerTable
         THEN answer' = {routerTable[k]} /\ pc' = "done" /\ UNCHANGED len
       ELSE IF len = 1
         THEN answer' = {} /\ pc' = "done" /\ UNCHANGED len
       ELSE len' = len - 1 /\ UNCHANGED <<pc, answer>>
  /\ UNCHANGED <<routerTable, addr>>

Loop_Bug2 ==                                              \* len unsigned
  /\ pc = "loop"
  /\ LET k == <<Mask(addr, len), len>> IN
       IF k \in DOMAIN routerTable
         THEN answer' = {routerTable[k]} /\ pc' = "done" /\ UNCHANGED len
         ELSE len' = (IF len = 0 THEN Width ELSE len - 1) /\ UNCHANGED <<pc, answer>>
  /\ UNCHANGED <<routerTable, addr>>

Loop_Bug3 ==                                              \* len >= -1
  /\ pc = "loop"
  /\ LET k == <<Mask(addr, len), len>> IN
       IF k \in DOMAIN routerTable
         THEN answer' = {routerTable[k]} /\ pc' = "done" /\ UNCHANGED len
       ELSE IF len = -1
         THEN answer' = {} /\ pc' = "done" /\ UNCHANGED len
       ELSE len' = len - 1 /\ UNCHANGED <<pc, answer>>
  /\ UNCHANGED <<routerTable, addr>>

\* One round of the loop, and the return of false behind it.
Loop ==
  /\ pc = "loop"
  /\ LET k == <<Mask(addr, len), len>> IN
       IF k \in DOMAIN routerTable
         THEN answer' = {routerTable[k]} /\ pc' = "done" /\ UNCHANGED len
       ELSE IF len = 0
         THEN answer' = {} /\ pc' = "done" /\ UNCHANGED len
       ELSE len' = len - 1 /\ UNCHANGED <<pc, answer>>
  /\ UNCHANGED <<routerTable, addr>>

Return ==
  /\ pc = "done"
  /\ pc' = "idle" /\ addr' = NoAddress /\ len' = Width /\ answer' = {}
  /\ UNCHANGED routerTable

LookupNext ==
  \/ \E k \in RouterKey, v \in Value : (LegalPrefix(k) /\ Insert(k, v)) \/ Rip(k, v)
  \/ \E k \in RouterKey : Delete(k)
  \/ \E a \in Address : Query(a)
  \/ Loop \/ Return

-----------------------------------------------------------------------------
(* Properties                                                              *)

\* Every variable has its type.
TypeOK ==
  /\ DOMAIN routerTable \subseteq RouterKey
  /\ \A k \in DOMAIN routerTable : routerTable[k] \in Value
  /\ pc \in {"idle", "loop", "done"}
  /\ addr \in Address /\ len \in Length
  /\ answer = {} \/ \E v \in Value : answer = {v}

\* The entries whose prefix contains address a.  router.h promises that addr and
\* len of an entry are a prefix; those the RIP handler stored without masking are
\* none.
Matches(a) ==
  {k \in DOMAIN routerTable : LegalPrefix(k) /\ Mask(k[1], k[2]) = Mask(a, k[2])}

\* prefix_query returns the entry of the longest prefix that contains the
\* address, and nothing only when there is none; entries that are no prefix are
\* not found and hide no other.
LongestPrefix ==
  pc = "done" =>
    IF Matches(addr) = {} THEN answer = {}
    ELSE \E k \in Matches(addr) :
           answer = {routerTable[k]} /\ \A m \in Matches(addr) : m[2] <= k[2]

\* The invariant of the loop: no longer prefix contains the address.
NothingLonger ==
  pc = "loop" => \A l \in len + 1 .. Width : <<Mask(addr, l), l>> \notin DOMAIN routerTable

LookupInv == TypeOK /\ NothingLonger /\ LongestPrefix

\* prefix_query returns, whatever the table.
Returns == pc = "loop" ~> pc = "done"

=============================================================================
