------------------------------ MODULE Homework ------------------------------
(***************************************************************************)
(* The homework programs: the functions the router is made of, each linked *)
(* with a driver of its own.  A behaviour is a run of one of the programs. *)
(***************************************************************************)
EXTENDS Lookup, Checksum, RipWire

VARIABLE program   \* the program that runs

vars == <<lookupVars, checksumVars, wireVars, program>>

\* The variables of the programs that do not run.
LookupIdle == LookupInit

ChecksumIdle ==
  header = [n \in 1 .. NWords |-> 0] /\ made = "nothing" /\ accepted = FALSE

WireIdle ==
  packet = WirePacket(FALSE, 0, 0, 0, FALSE, <<>>) /\ reading = "nothing" /\ entries = <<>>

Init ==
  \/ program = "lookup" /\ LookupInit /\ ChecksumIdle /\ WireIdle
  \/ program = "forwarding" /\ LookupIdle /\ ChecksumInit /\ WireIdle
  \/ program = "protocol" /\ LookupIdle /\ ChecksumIdle /\ WireInit

Next ==
  \/ program = "lookup" /\ LookupNext /\ UNCHANGED <<checksumVars, wireVars, program>>
  \/ program = "forwarding" /\ ChecksumNext /\ UNCHANGED <<lookupVars, wireVars, program>>
  \/ program = "protocol" /\ WireNext /\ UNCHANGED <<lookupVars, checksumVars, program>>

\* A loop that has begun goes on.
Spec == Init /\ [][Next]_vars /\ WF_vars(Loop /\ UNCHANGED <<checksumVars, wireVars, program>>)

=============================================================================
