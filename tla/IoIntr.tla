------------------------------- MODULE IoIntr -------------------------------
(***************************************************************************)
(* pydev.iointr(): Python pushes the value of a parameter, and the records *)
(* with SCAN = "I/O Intr" that use the parameter process and read it back. *)
(* Models pydev_iointr and registerIoIntr of pywrapper.cpp with initRecord,*)
(* getIointInfo and scanCallback of the pydev_*.cpp device supports.       *)
(*                                                                         *)
(* Parameters do not interact: one is modelled, and all Records use it.    *)
(* Each device support keeps its own map of scan lists, but there is one   *)
(* callback per parameter.  Pushed values are numbered 1, 2, ...; 0 is the *)
(* null pointer.  Whoever is inside pydev_iointr holds the GIL; where the  *)
(* scan is immediate it holds it until every record has been processed.    *)
(***************************************************************************)
EXTENDS Integers

CONSTANTS Records,
          Types,      \* the device supports, one per source file
          TypeOf,     \* the device support of each record
          NoType,
          Immediate,  \* scanIoImmediate (EPICS 3.16 and later) or scanIoRequest
          MaxPush     \* bounds the number of pushes

ASSUME IoIntrAssumption ==
  /\ TypeOf \in [Records -> Types]
  /\ NoType \notin Types
  /\ Immediate \in BOOLEAN
  /\ MaxPush \in Nat

VARIABLES
  inited,  \* the records whose initRecord has run
  pvts,    \* the device supports whose ioScanPvts has the parameter
  cb,      \* params[name].first: whose scan list the push triggers
  value,   \* params[name].second
  pushes,  \* how many values Python has pushed
  toScan,  \* the records that a scan under way has not reached
  st,      \* PACT: "idle", "queued" for the worker that reads, "read" until completed
  got,     \* what the code of the record's pass has returned
  val,     \* VAL
  missed   \* history: a scan was dropped after the record had read an older value

regVars == <<inited, pvts, cb>>
vars == <<regVars, value, pushes, toScan, st, got, val, missed>>

TypeOK ==
  /\ inited \in SUBSET Records
  /\ pvts \in SUBSET Types
  /\ IF pvts = {} THEN cb = NoType ELSE cb \in pvts
  /\ value \in 0 .. pushes
  /\ pushes \in 0 .. MaxPush
  /\ toScan \in SUBSET Records
  /\ st \in [Records -> {"idle", "queued", "read"}]
  /\ got \in [Records -> 0 .. pushes]
  /\ val \in [Records -> 0 .. pushes]
  /\ missed \in [Records -> BOOLEAN]

Init ==
  /\ inited = {}
  /\ pvts = {}
  /\ cb = NoType
  /\ value = 0
  /\ pushes = 0
  /\ toScan = {}
  /\ st = [r \in Records |-> "idle"]
  /\ got = [r \in Records |-> 0]
  /\ val = [r \in Records |-> 0]
  /\ missed = [r \in Records |-> FALSE]

\* EPICS scans and processes records once all of them are initialised.
Running == inited = Records

\* The GIL is held through an immediate scan.
GilFree == Immediate => toScan = {}

Scanned(r) == TypeOf[r] = cb

\* initRecord: the first record of a device support that uses the parameter registers it, over
\* whatever another device support has registered, and forgets the value.
InitRecord(r) ==
  /\ r \notin inited
  /\ inited' = inited \cup {r}
  /\ IF TypeOf[r] \in pvts
       THEN UNCHANGED <<pvts, cb, value>>
       ELSE pvts' = pvts \cup {TypeOf[r]} /\ cb' = TypeOf[r] /\ value' = 0
  /\ UNCHANGED <<pushes, toScan, st, got, val, missed>>

Push_BugNoScan ==
  /\ pushes < MaxPush
  /\ GilFree
  /\ pushes' = pushes + 1
  /\ value' = IF cb = NoType THEN value ELSE pushes'
  /\ missed' = IF Running THEN missed ELSE [r \in Records |-> TRUE]
  /\ UNCHANGED <<regVars, toScan, st, got, val>>

\* pydev_iointr with a value.  Nobody keeps the value of a parameter that no record uses yet,
\* and nothing is scanned before EPICS runs.
Push ==
  /\ pushes < MaxPush
  /\ GilFree
  /\ pushes' = pushes + 1
  /\ value' = IF cb = NoType THEN value ELSE pushes'
  /\ toScan' = IF Running THEN toScan \cup {r \in Records : Scanned(r)} ELSE toScan
  /\ missed' = IF Running THEN missed ELSE [r \in Records |-> TRUE]
  /\ UNCHANGED <<regVars, st, got, val>>

ScanRecord_BugStopsAtBusy(r) ==
  /\ r \in toScan
  /\ toScan' = IF st[r] = "idle" THEN toScan \ {r} ELSE {}
  /\ st' = [st EXCEPT ![r] = IF @ = "idle" THEN "queued" ELSE @]
  /\ missed' = [missed EXCEPT ![r] = @ \/ (st[r] = "read" /\ got[r] # value)]
  /\ UNCHANGED <<regVars, value, pushes, got, val>>

\* dbProcess of one record of the scan list: a busy record drops the scan.
ScanRecord(r) ==
  /\ r \in toScan
  /\ toScan' = toScan \ {r}
  /\ IF st[r] = "idle"
       THEN st' = [st EXCEPT ![r] = "queued"] /\ UNCHANGED missed
       ELSE /\ missed' = [missed EXCEPT ![r] = @ \/ (st[r] = "read" /\ got[r] # value)]
            /\ UNCHANGED st
  /\ UNCHANGED <<regVars, value, pushes, got, val>>

\* Any other reason to process, say a put to PROC.
Process(r) ==
  /\ Running
  /\ st[r] = "idle"
  /\ st' = [st EXCEPT ![r] = "queued"]
  /\ UNCHANGED <<regVars, value, pushes, toScan, got, val, missed>>

\* pydev_iointr without a value, from the record's code in a worker.
Read(r) ==
  /\ st[r] = "queued"
  /\ GilFree
  /\ st' = [st EXCEPT ![r] = "read"]
  /\ got' = [got EXCEPT ![r] = value]
  /\ missed' = [missed EXCEPT ![r] = FALSE]
  /\ UNCHANGED <<regVars, value, pushes, toScan, val>>

\* The result reaches VAL and the record completes.  None converts to no number or string.
Complete(r) ==
  /\ st[r] = "read"
  /\ st' = [st EXCEPT ![r] = "idle"]
  /\ val' = [val EXCEPT ![r] = IF got[r] = 0 THEN @ ELSE got[r]]
  /\ UNCHANGED <<regVars, value, pushes, toScan, got, missed>>

RecordStep(r) ==
  InitRecord(r) \/ ScanRecord(r) \/ Process(r) \/ Read(r) \/ Complete(r)

Next == Push \/ \E r \in Records : RecordStep(r)

Spec == Init /\ [][Next]_vars

(* Fairness: initialisation and scans proceed, and a pass reads and completes *)
(* in the end although pushes keep taking the GIL (SF).                       *)
Fairness ==
  \A r \in Records :
    WF_vars(InitRecord(r)) /\ WF_vars(ScanRecord(r)) /\ SF_vars(Read(r)) /\ WF_vars(Complete(r))

FairSpec == Spec /\ Fairness

-----------------------------------------------------------------------------
(* Properties.                                                               *)

\* A record at rest that the callback reaches shows the parameter's value, unless the scan for
\* it fell into a pass that had already read, or it was pushed before EPICS ran.
FreshAtRest ==
  \A r \in Records :
    Running /\ st[r] = "idle" /\ r \notin toScan /\ Scanned(r) /\ ~missed[r] => val[r] = value

\* A pushed value, or a newer one, arrives in every record of the scan list, with the same
\* exception.
Delivered ==
  \A r \in Records, n \in 1 .. MaxPush :
    (Running /\ Scanned(r) /\ value = n) ~> (val[r] >= n \/ missed[r])
=============================================================================
