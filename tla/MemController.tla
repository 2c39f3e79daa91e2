---------------------------- MODULE MemController ----------------------------
(***************************************************************************)
(* The memory controller of the processor (MemController.v), one step per  *)
(* edge of its 50 MHz clock.  It turns a request that the CPU holds into a *)
(* sequence on the control lines of the SRAM and waits in S_DONE until the *)
(* request is taken back.  The lines are active low.  baseCeN_R is set but *)
(* drives nothing, and the other chips are switched off.                   *)
(***************************************************************************)

VARIABLES
  state,      \* what the controller is at
  baseZ,      \* the data lines are left to the SRAM
  baseOeN,    \* output enable
  baseWeN,    \* write enable
  baseData,   \* what is put on the data lines
  baseDOut    \* what was read last

ctlVars == <<state, baseZ, baseOeN, baseWeN, baseData, baseDOut>>

CtlTypeOK(Data) ==
  /\ state \in {"IDLE", "RD_1", "RD_2", "WR_1", "WR_2", "DONE"}
  /\ baseZ \in BOOLEAN /\ baseOeN \in BOOLEAN /\ baseWeN \in BOOLEAN
  /\ baseData \in Data /\ baseDOut \in Data

CtlInit(zero) ==
  /\ state = "IDLE"
  /\ baseZ = TRUE /\ baseOeN = TRUE /\ baseWeN = TRUE
  /\ baseData = zero /\ baseDOut = zero

CtlReset ==
  /\ state' = "IDLE"
  /\ baseZ' = TRUE /\ baseOeN' = TRUE /\ baseWeN' = TRUE
  /\ UNCHANGED <<baseData, baseDOut>>

StartRead ==
  /\ state = "IDLE"
  /\ state' = "RD_1"
  /\ baseZ' = TRUE
  /\ UNCHANGED <<baseOeN, baseWeN, baseData, baseDOut>>

StartWrite(baseDIn) ==
  /\ state = "IDLE"
  /\ state' = "WR_1"
  /\ baseZ' = FALSE
  /\ baseData' = baseDIn
  /\ UNCHANGED <<baseOeN, baseWeN, baseDOut>>

Read1 ==
  /\ state = "RD_1"
  /\ state' = "RD_2"
  /\ baseOeN' = FALSE
  /\ UNCHANGED <<baseZ, baseWeN, baseData, baseDOut>>

Read2(baseIO) ==
  /\ state = "RD_2"
  /\ state' = "DONE"
  /\ baseOeN' = TRUE
  /\ baseDOut' \in baseIO
  /\ UNCHANGED <<baseZ, baseWeN, baseData>>

Write1 ==
  /\ state = "WR_1"
  /\ state' = "WR_2"
  /\ baseWeN' = FALSE
  /\ UNCHANGED <<baseZ, baseOeN, baseData, baseDOut>>

\* A slip: the data lines are let go together with the write enable.
Write2_Bug ==
  /\ state = "WR_2"
  /\ state' = "DONE"
  /\ baseWeN' = TRUE
  /\ baseZ' = TRUE
  /\ UNCHANGED <<baseOeN, baseData, baseDOut>>

Write2 ==
  /\ state = "WR_2"
  /\ state' = "DONE"
  /\ baseWeN' = TRUE
  /\ UNCHANGED <<baseZ, baseOeN, baseData, baseDOut>>

Done(asked) ==
  /\ state = "DONE"
  /\ state' = IF asked THEN "DONE" ELSE "IDLE"
  /\ baseZ' = TRUE
  /\ UNCHANGED <<baseOeN, baseWeN, baseData, baseDOut>>

\* An edge of the clock, with the inputs as they are; baseIO is the set of words that
\* may be read from the data lines.
CtlEdge(baseRd, baseWr, baseDIn, baseIO) ==
  \/ baseRd /\ StartRead
  \/ ~baseRd /\ baseWr /\ StartWrite(baseDIn)
  \/ ~baseRd /\ ~baseWr /\ state = "IDLE" /\ UNCHANGED ctlVars
  \/ Read1
  \/ Read2(baseIO)
  \/ Write1
  \/ Write2
  \/ Done(baseRd \/ baseWr)

=============================================================================
