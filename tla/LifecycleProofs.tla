----------------------------- MODULE LifecycleProofs -----------------------------
(***************************************************************************)
(* What holds of the versions for any number of calls, versions, graphs    *)
(* and schemas.  The properties are not inductive: that a published row is *)
(* valid depends on what the publishing call found before its transaction, *)
(* and that an edited draft is valid on what the replacing call found.     *)
(* Inv therefore says of a call between its two halves what its first half *)
(* established and no other call can undo.  The proof splits a step into   *)
(* what it does to the rows (RowsStep) and what it does to its own call,   *)
(* and shows once and for all that no step of the first kind disturbs what *)
(* the other calls have established.                                       *)
(***************************************************************************)
EXTENDS LifecycleAuthority, FiniteSetTheorems, TLAPS

(* An edited row exists and is valid, a published one is valid and sealed. *)
Valid(row) == row.graph \in ValidGraphs /\ row.schema \in ValidSchemas
WellFormed(row, n) ==
    /\ n > 0 => row.status # "ABSENT" /\ Valid(row)
    /\ row.status \in {"PUBLISHED", "DEPRECATED", "REVOKED"} =>
          Valid(row) /\ row.digest = Digest(row)
RowsOK == \A v \in Versions : WellFormed(rows[v], edition[v])

(* What no step takes back from a row.                                     *)
Later(old, new) ==
    /\ old.status # "ABSENT" => new.status # "ABSENT"
    /\ old.status \notin {"ABSENT", "DRAFT"} => new.status \notin {"ABSENT", "DRAFT"}
    /\ (old.status # "ABSENT" /\ old.schema \in ValidSchemas) => new.schema \in ValidSchemas
    /\ old.status \notin {"ABSENT", "DRAFT"} => [new EXCEPT !.status = old.status] = old

(* A call's step belongs to its command; what it is about to write is      *)
(* valid, the schema it keeps included, because whoever replaced that      *)
(* since replaced it by a valid one; and whoever published did.            *)
CallOK(c) ==
    /\ step[c] \in {"number", "insert"} => command[c].kind = "CREATE"
    /\ step[c] \in {"check", "replace"} => command[c].kind = "REPLACE"
    /\ step[c] \in {"version", "nodes", "transitions", "publish"} => command[c].kind = "PUBLISH"
    /\ step[c] = "replace" => /\ rows[V(c)].status # "ABSENT"
                              /\ command[c].graph \in ValidGraphs
                              /\ Effective(c) \in ValidSchemas
    /\ step[c] = "publish" => SnapshotValid(read[c])
    /\ (answer[c] = "DONE" /\ command[c].kind = "PUBLISH") =>
          rows[V(c)].status \notin {"ABSENT", "DRAFT"}
    /\ answer[c] # "none" => step[c] = "end"

Inv ==
    /\ LifecycleTypeOK
    /\ RowsOK
    /\ \A c \in Calls : CallOK(c)
    /\ OnePublisher

--------------------------------------------------------------------------------
(* The values that stand for nothing have their types.                     *)
LEMMA SomeSchemaValid == SomeSchema \in ValidSchemas /\ SomeSchema \in Schemas
  BY SchemaAssumption DEF SomeSchema

(* Initially nothing exists and nobody has asked for anything.             *)
LEMMA InvInit == LifecycleInit => Inv
<1> SUFFICES ASSUME LifecycleInit PROVE Inv
  OBVIOUS
<1> USE DEF LifecycleInit, Init
<1>1. LifecycleTypeOK
  <2>1. NoDigest \in Digests
    BY DEF Digests
  <2>2. rows \in [Versions -> Row]
    BY <2>1, SomeSchemaValid DEF Row, Statuses
  <2>3. read \in [Calls -> Read]
    BY SomeSchemaValid DEF Read
  <2>4. QED
    BY <2>2, <2>3 DEF LifecycleTypeOK, Steps, Answers, At
<1>2. RowsOK
  BY DEF RowsOK, WellFormed
<1>3. \A c \in Calls : CallOK(c)
  BY DEF CallOK
<1>4. OnePublisher
  BY DEF OnePublisher
<1>5. QED
  BY <1>1, <1>2, <1>3, <1>4 DEF Inv

--------------------------------------------------------------------------------
(* What a step does to the rows: it writes at most one, into a well-formed *)
(* later one.                                                              *)
Write(v, row, n) ==
    /\ rows' = [rows EXCEPT ![v] = row]
    /\ edition' = [edition EXCEPT ![v] = n]
    /\ WellFormed(row, n)
    /\ Later(rows[v], row)
    /\ rows[v].status \notin {"ABSENT", "DRAFT"} => n = edition[v]
RowsStep ==
    \/ UNCHANGED <<rows, edition>>
    \/ \E v \in Versions, row \in Row, n \in Nat : Write(v, row, n)

(* Such a step keeps the rows well-formed and takes nothing back.          *)
LEMMA RowsStepKeepsRows ==
    ASSUME LifecycleTypeOK, RowsOK, RowsStep
    PROVE  /\ rows' \in [Versions -> Row] /\ edition' \in [Versions -> Nat]
           /\ RowsOK'
           /\ \A v \in Versions : Later(rows[v], rows'[v])
<1>1. rows \in [Versions -> Row] /\ edition \in [Versions -> Nat]
  BY DEF LifecycleTypeOK
<1>2. CASE UNCHANGED <<rows, edition>>
  BY <1>1, <1>2 DEF RowsOK, WellFormed, Valid, Later, Digest, Row
<1>3. ASSUME NEW v \in Versions, NEW row \in Row, NEW n \in Nat, Write(v, row, n)
      PROVE  /\ rows' \in [Versions -> Row] /\ edition' \in [Versions -> Nat]
             /\ RowsOK'
             /\ \A w \in Versions : Later(rows[w], rows'[w])
  <2>1. rows' \in [Versions -> Row] /\ edition' \in [Versions -> Nat]
    BY <1>1, <1>3 DEF Write
  <2>2. rows'[v] = row /\ edition'[v] = n
    BY <1>1, <1>3 DEF Write
  <2>3. \A w \in Versions \ {v} : rows'[w] = rows[w] /\ edition'[w] = edition[w]
    BY <1>1, <1>3 DEF Write
  <2>4. \A w \in Versions : WellFormed(rows'[w], edition'[w])
    BY <2>2, <2>3, <1>3 DEF RowsOK, Write
  <2>5. \A w \in Versions : Later(rows[w], rows'[w])
    BY <1>1, <2>2, <2>3, <1>3 DEF Write, Later, Row
  <2>6. RowsOK'
    BY <2>4 DEF RowsOK, WellFormed, Valid, Digest
  <2>7. QED
    BY <2>1, <2>5, <2>6
<1>4. QED
  BY <1>2, <1>3 DEF RowsStep

(* What the caller's own step leaves it with.                              *)
CallerStep(c) ==
    /\ command' = [command EXCEPT ![c] = command'[c]]
    /\ step' = [step EXCEPT ![c] = step'[c]]
    /\ read' = [read EXCEPT ![c] = read'[c]]
    /\ answer' = [answer EXCEPT ![c] = answer'[c]]
    /\ command'[c] \in Commands /\ step'[c] \in Steps \ {"idle"}
    /\ read'[c] \in Read /\ answer'[c] \in Answers

(* A caller newly told that it published found the version a draft.        *)
NewPublisher(c) ==
    (answer'[c] = "DONE" /\ command'[c].kind = "PUBLISH") =>
        command'[c] = command[c] /\ rows[V(c)].status = "DRAFT"

(* What the others have established stays established.                     *)
LEMMA OthersUndisturbed ==
    ASSUME Inv, RowsStep, NEW c \in Calls, CallerStep(c), NEW d \in Calls, d # c
    PROVE  CallOK(d)'
<1>1. command'[d] = command[d] /\ step'[d] = step[d] /\ read'[d] = read[d] /\ answer'[d] = answer[d]
  BY DEF Inv, LifecycleTypeOK, CallerStep
<1>2. CallOK(d) /\ LifecycleTypeOK
  BY DEF Inv
<1>3. step[d] # "idle" => command[d] \in Commands /\ V(d) \in Versions
  BY <1>2, CommandAssumption DEF LifecycleTypeOK, Command, V, At
<1>4. \A v \in Versions : Later(rows[v], rows'[v])
  BY RowsStepKeepsRows DEF Inv
<1>5. step[d] = "replace" => /\ rows'[V(d)].status # "ABSENT"
                             /\ Effective(d)' \in ValidSchemas
  BY <1>1, <1>2, <1>3, <1>4 DEF CallOK, Later, Effective, V
<1>6. (answer[d] = "DONE" /\ command[d].kind = "PUBLISH") =>
         rows'[V(d)].status \notin {"ABSENT", "DRAFT"}
  BY <1>1, <1>2, <1>3, <1>4 DEF CallOK, Later
<1>7. QED
  BY <1>1, <1>2, <1>5, <1>6 DEF CallOK, V, SnapshotValid

(* Therefore a step is safe if its caller's own part is.                   *)
LEMMA SplitStep ==
    ASSUME Inv, NEW c \in Calls, step[c] # "end",
           RowsStep, CallerStep(c), CallOK(c)', NewPublisher(c)
    PROVE  Inv'
<1>1. LifecycleTypeOK /\ answer[c] = "none"
  BY DEF Inv, CallOK
<1>2. LifecycleTypeOK'
  <2>1. rows' \in [Versions -> Row] /\ edition' \in [Versions -> Nat]
    BY RowsStepKeepsRows DEF Inv
  <2>2. /\ command' \in [Calls -> Commands \cup {NoCommand}] /\ step' \in [Calls -> Steps]
        /\ read' \in [Calls -> Read] /\ answer' \in [Calls -> Answers]
    BY <1>1 DEF LifecycleTypeOK, CallerStep
  <2>3. \A d \in Calls : (command'[d] = NoCommand) <=> (step'[d] = "idle")
    BY <1>1, CommandAssumption DEF LifecycleTypeOK, CallerStep, At
  <2>4. QED
    BY <2>1, <2>2, <2>3 DEF LifecycleTypeOK, At
<1>3. \A d \in Calls : CallOK(d)'
  BY OthersUndisturbed
<1>4. OnePublisher'
  <2>1. \A d \in Calls \ {c} : answer'[d] = answer[d] /\ command'[d] = command[d]
    BY <1>1 DEF LifecycleTypeOK, CallerStep
  <2>2. \A d \in Calls \ {c} : (answer[d] = "DONE" /\ command[d].kind = "PUBLISH") =>
           rows[V(d)].status # "DRAFT"
    BY DEF Inv, CallOK
  <2>3. QED
    BY <2>1, <2>2 DEF OnePublisher, NewPublisher, V, Inv
<1>5. QED
  BY <1>2, <1>3, <1>4, RowsStepKeepsRows DEF Inv

--------------------------------------------------------------------------------
(* What every lemma below needs of the caller before its step.             *)
CallerFacts(c) ==
    /\ LifecycleTypeOK /\ CallOK(c)
    /\ read[c] \in Read /\ step[c] \in Steps /\ answer[c] \in Answers
    /\ step[c] # "end" => answer[c] = "none"
    /\ step[c] # "idle" =>
          /\ command[c] \in Commands /\ command[c] \in Command
          /\ V(c) \in Versions /\ rows[V(c)] \in Row /\ edition[V(c)] \in Nat
          /\ WellFormed(rows[V(c)], edition[V(c)])

(* The invariant says all that of every caller.                            *)
LEMMA CallerBefore == ASSUME Inv, NEW c \in Calls PROVE CallerFacts(c)
<1>1. LifecycleTypeOK /\ CallOK(c)
  BY DEF Inv
<1>2. step[c] # "idle" => command[c] \in Commands /\ command[c] \in Command
  BY <1>1, CommandAssumption DEF LifecycleTypeOK, At
<1>3. command[c] \in Command => V(c) \in Versions
  BY DEF Command, V
<1>4. V(c) \in Versions => /\ rows[V(c)] \in Row /\ edition[V(c)] \in Nat
                           /\ WellFormed(rows[V(c)], edition[V(c)])
  BY <1>1 DEF LifecycleTypeOK, Inv, RowsOK
<1>5. QED
  BY <1>1, <1>2, <1>3, <1>4 DEF CallerFacts, LifecycleTypeOK, CallOK

(* A request begins at the first statement of its command.                 *)
LEMMA CallKeepsInv ==
    ASSUME Inv, NEW c \in Calls, NEW cmd \in Commands, Call(c, cmd)
    PROVE  Inv' /\ RowsStep
<1> USE DEF Call, Goto, At
<1>1. cmd \in Command
  BY CommandAssumption
<1>2. /\ LifecycleTypeOK /\ read[c] \in Read /\ answer[c] \in Answers /\ answer[c] = "none"
  BY CallerBefore DEF CallerFacts
<1>3. command'[c] = cmd /\ step'[c] = FirstStep(cmd.kind) /\ read'[c] = read[c] /\ answer'[c] = "none"
  BY <1>2 DEF LifecycleTypeOK
<1>4. FirstStep(cmd.kind) \in {"number", "check", "version", "status"}
  BY <1>1 DEF Command, FirstStep
<1>5. CallerStep(c)
  BY <1>2, <1>3, <1>4 DEF CallerStep, LifecycleTypeOK, Steps
<1>6. CallOK(c)'
  BY <1>1, <1>3, <1>4 DEF CallOK, Command, FirstStep
<1>7. NewPublisher(c) /\ RowsStep
  BY <1>3 DEF NewPublisher, RowsStep
<1>8. QED
  BY <1>5, <1>6, <1>7, SplitStep

(* The next version number is read.                                        *)
LEMMA NextVersionNumberKeepsInv ==
    ASSUME Inv, NEW c \in Calls, NextVersionNumber(c)
    PROVE  Inv' /\ RowsStep
<1> USE DEF NextVersionNumber, Goto, At, Unwritten
<1>1. CallerFacts(c)
  BY CallerBefore
<1>2. PICK m \in Numbers \cup {0} : read' = [read EXCEPT ![c].number = m + 1]
  OBVIOUS
<1>3. m \in Nat
  BY <1>1 DEF CallerFacts, LifecycleTypeOK, Numbers, Existing, Row
<1>4. read'[c] \in Read /\ command'[c] = command[c] /\ step'[c] = "insert" /\ answer'[c] = "none"
  BY <1>1, <1>2, <1>3 DEF CallerFacts, LifecycleTypeOK, Read
<1>5. CallerStep(c)
  BY <1>1, <1>2, <1>4 DEF CallerFacts, CallerStep, LifecycleTypeOK, Steps, Answers
<1>6. CallOK(c)'
  BY <1>1, <1>4 DEF CallerFacts, CallOK
<1>7. NewPublisher(c) /\ RowsStep
  BY <1>4 DEF NewPublisher, RowsStep
<1>8. QED
  BY <1>1, <1>5, <1>6, <1>7, SplitStep

(* A draft is inserted under an id nobody used, so nothing was said of it. *)
LEMMA CreateDraftVersionKeepsInv ==
    ASSUME Inv, NEW c \in Calls, CreateDraftVersion(c)
    PROVE  Inv' /\ RowsStep
<1> USE DEF CreateDraftVersion, End, At, Unread
<1>1. CallerFacts(c)
  BY CallerBefore
<1>2. command'[c] = command[c] /\ step'[c] = "end" /\ read'[c] = read[c]
  BY <1>1 DEF CallerFacts, LifecycleTypeOK
<1>3. answer'[c] \in Answers /\ command[c].kind = "CREATE"
  BY <1>1 DEF CallerFacts, LifecycleTypeOK, Answers, CallOK
<1>4. CallerStep(c)
  BY <1>1, <1>2, <1>3 DEF CallerFacts, CallerStep, LifecycleTypeOK, Steps
<1>5. CallOK(c)' /\ NewPublisher(c)
  BY <1>2, <1>3 DEF CallOK, NewPublisher
<1>6. RowsStep
  <2>1. CASE UNCHANGED rows
    BY <2>1 DEF RowsStep
  <2>2. ASSUME NEW v \in Versions \ Existing,
               rows' = [rows EXCEPT ![v] = [number |-> read[c].number, status |-> "DRAFT",
                                            schema |-> command[c].schema,
                                            graph |-> EmptyGraph, digest |-> NoDigest]]
        PROVE  RowsStep
    <3> DEFINE row == [number |-> read[c].number, status |-> "DRAFT",
                       schema |-> command[c].schema, graph |-> EmptyGraph,
                       digest |-> NoDigest]
    <3>1. command[c].schema \in Schemas
      BY <1>1, <1>3, CommandAssumption DEF CallerFacts, Command
    <3>2. row \in Row
      BY <1>1, <3>1 DEF CallerFacts, Read, Row, Statuses, Digests
    <3>3. edition[v] = 0
      BY <1>1, <2>2 DEF CallerFacts, LifecycleTypeOK, Inv, RowsOK, WellFormed, Existing
    <3>4. rows[v].status = "ABSENT"
      BY <2>2 DEF Existing
    <3>5. edition' = [edition EXCEPT ![v] = 0]
      BY <1>1, <3>3 DEF CallerFacts, LifecycleTypeOK
    <3>6. WellFormed(row, 0)
      BY DEF WellFormed
    <3>7. Later(rows[v], row)
      BY <3>4 DEF Later
    <3>8. Write(v, row, 0)
      BY <2>2, <3>4, <3>5, <3>6, <3>7 DEF Write
    <3>9. QED
      BY <3>2, <3>8 DEF RowsStep
  <2>3. QED
    BY <2>1, <2>2
<1>7. QED
  BY <1>1, <1>4, <1>5, <1>6, SplitStep

(* The first half of a replacement finds the draft and its edit valid.     *)
LEMMA CheckReplacementKeepsInv ==
    ASSUME Inv, NEW c \in Calls, CheckReplacement(c)
    PROVE  Inv' /\ RowsStep
<1> USE DEF CheckReplacement, Goto, End, At, Unwritten
<1>1. CallerFacts(c)
  BY CallerBefore
<1>2. command'[c] = command[c] /\ read'[c] = read[c] /\ command[c].kind = "REPLACE"
  BY <1>1 DEF CallerFacts, LifecycleTypeOK, CallOK
<1>3. answer'[c] \in Answers \ {"DONE"} /\ step'[c] \in {"replace", "end"}
  BY <1>1 DEF CallerFacts, LifecycleTypeOK, Answers
<1>4. CallerStep(c)
  BY <1>1, <1>2, <1>3 DEF CallerFacts, CallerStep, LifecycleTypeOK, Steps
<1>5. step'[c] = "replace" => /\ rows[V(c)].status # "ABSENT" /\ answer'[c] = "none"
                              /\ command[c].graph \in ValidGraphs
                              /\ Effective(c) \in ValidSchemas
  BY <1>1 DEF CallerFacts, LifecycleTypeOK
<1>6. CallOK(c)'
  BY <1>2, <1>3, <1>5 DEF CallOK, Effective, V
<1>7. NewPublisher(c) /\ RowsStep
  BY <1>3 DEF NewPublisher, RowsStep
<1>8. QED
  BY <1>1, <1>4, <1>6, <1>7, SplitStep

(* The second half makes the draft valid, whatever it was.                 *)
LEMMA ReplaceDraftGraphKeepsInv ==
    ASSUME Inv, NEW c \in Calls, ReplaceDraftGraph(c)
    PROVE  Inv' /\ RowsStep
<1> USE DEF ReplaceDraftGraph, End, At, Unread
<1>1. CallerFacts(c)
  BY CallerBefore
<1>2. /\ command'[c] = command[c] /\ step'[c] = "end" /\ read'[c] = read[c]
      /\ command[c].kind = "REPLACE"
  BY <1>1 DEF CallerFacts, LifecycleTypeOK, CallOK
<1>3. answer'[c] \in Answers
  BY <1>1 DEF CallerFacts, LifecycleTypeOK, Answers
<1>4. CallerStep(c)
  BY <1>1, <1>2, <1>3 DEF CallerFacts, CallerStep, LifecycleTypeOK, Steps
<1>5. CallOK(c)' /\ NewPublisher(c)
  BY <1>2 DEF CallOK, NewPublisher
<1>6. RowsStep
  <2>1. CASE ~StillDraft(V(c))
    BY <2>1 DEF RowsStep
  <2>2. CASE StillDraft(V(c))
    <3> DEFINE old == rows[V(c)]
               row == [old EXCEPT !.graph = command[c].graph, !.schema = Effective(c)]
    <3>1. command[c].graph \in ValidGraphs /\ Effective(c) \in ValidSchemas
      BY <1>1 DEF CallerFacts, CallOK
    <3>2. command[c].graph \in Graphs /\ Effective(c) \in Schemas
      BY <3>1, GraphAssumption, SchemaAssumption
    <3>3. old \in Row /\ old.status = "DRAFT"
      BY <1>1, <2>2 DEF CallerFacts, StillDraft
    <3>4. /\ row \in Row
          /\ row.status = "DRAFT" /\ row.graph = command[c].graph /\ row.schema = Effective(c)
      BY <3>2, <3>3 DEF Row
    <3>5. rows' = [rows EXCEPT ![V(c)] = row]
      BY <1>1, <2>2, <3>3 DEF CallerFacts, LifecycleTypeOK, Effective, Row
    <3>6. WellFormed(row, edition[V(c)] + 1) /\ Later(old, row)
      BY <3>1, <3>4 DEF WellFormed, Valid, Later
    <3>7. edition[V(c)] + 1 \in Nat /\ edition' = [edition EXCEPT ![V(c)] = edition[V(c)] + 1]
      BY <1>1, <2>2 DEF CallerFacts
    <3>8. Write(V(c), row, edition[V(c)] + 1)
      BY <3>3, <3>5, <3>6, <3>7 DEF Write
    <3>9. QED
      BY <1>1, <3>4, <3>7, <3>8 DEF CallerFacts, RowsStep
  <2>3. QED
    BY <2>1, <2>2
<1>7. QED
  BY <1>1, <1>4, <1>5, <1>6, SplitStep

(* A publication reads; only its last read decides what it may write.      *)
LEMMA ReadVersionKeepsInv ==
    ASSUME Inv, NEW c \in Calls, ReadVersion(c)
    PROVE  Inv' /\ RowsStep
<1> USE DEF ReadVersion, Goto, End, At, Unwritten
<1>1. CallerFacts(c)
  BY CallerBefore
<1>2. command'[c] = command[c] /\ command[c].kind = "PUBLISH"
  BY <1>1 DEF CallerFacts, LifecycleTypeOK, CallOK
<1>3. rows[V(c)].number \in Nat /\ rows[V(c)].schema \in Schemas
  BY <1>1 DEF CallerFacts, Row
<1>4. read' = [read EXCEPT ![c] = read'[c]] /\ read'[c] \in Read
  BY <1>1, <1>3 DEF CallerFacts, LifecycleTypeOK, Read
<1>5. answer'[c] \in Answers \ {"DONE"} /\ step'[c] \in {"nodes", "end"}
  BY <1>1 DEF CallerFacts, LifecycleTypeOK, Answers
<1>6. step'[c] = "nodes" => answer'[c] = "none"
  BY <1>1 DEF CallerFacts, LifecycleTypeOK
<1>7. CallerStep(c)
  BY <1>1, <1>2, <1>4, <1>5 DEF CallerFacts, CallerStep, LifecycleTypeOK, Steps
<1>8. CallOK(c)' /\ NewPublisher(c) /\ RowsStep
  BY <1>2, <1>5, <1>6 DEF CallOK, NewPublisher, RowsStep
<1>9. QED
  BY <1>1, <1>7, <1>8, SplitStep

(* Its nodes.                                                              *)
LEMMA ReadNodesKeepsInv ==
    ASSUME Inv, NEW c \in Calls, ReadNodes(c)
    PROVE  Inv' /\ RowsStep
<1> USE DEF ReadNodes, Goto, At, Unwritten
<1>1. CallerFacts(c)
  BY CallerBefore
<1>2. command'[c] = command[c] /\ command[c].kind = "PUBLISH"
  BY <1>1 DEF CallerFacts, LifecycleTypeOK, CallOK
<1>3. rows[V(c)].graph \in Graphs \cup {EmptyGraph} /\ edition[V(c)] \in Nat
  BY <1>1 DEF CallerFacts, Row
<1>4. read' = [read EXCEPT ![c] = read'[c]] /\ read'[c] \in Read
  BY <1>1, <1>3 DEF CallerFacts, LifecycleTypeOK, Read
<1>5. answer'[c] = "none" /\ step'[c] = "transitions"
  BY <1>1 DEF CallerFacts, LifecycleTypeOK
<1>6. CallerStep(c)
  BY <1>1, <1>2, <1>4, <1>5 DEF CallerFacts, CallerStep, LifecycleTypeOK, Steps, Answers
<1>7. CallOK(c)' /\ NewPublisher(c) /\ RowsStep
  BY <1>2, <1>5 DEF CallOK, NewPublisher, RowsStep
<1>8. QED
  BY <1>1, <1>6, <1>7, SplitStep

(* Its transitions, whereupon it goes on only with a valid snapshot.       *)
LEMMA ReadTransitionsKeepsInv ==
    ASSUME Inv, NEW c \in Calls, ReadTransitions(c)
    PROVE  Inv' /\ RowsStep
<1> USE DEF ReadTransitions, Goto, End, At, Unwritten
<1>1. CallerFacts(c)
  BY CallerBefore
<1>2. command'[c] = command[c] /\ command[c].kind = "PUBLISH"
  BY <1>1 DEF CallerFacts, LifecycleTypeOK, CallOK
<1>3. edition[V(c)] \in Nat
  BY <1>1 DEF CallerFacts
<1>4. read' = [read EXCEPT ![c] = read'[c]] /\ read'[c] \in Read
  BY <1>1, <1>3 DEF CallerFacts, LifecycleTypeOK, Read
<1>5. answer'[c] \in Answers \ {"DONE"} /\ step'[c] \in {"publish", "end"}
  BY <1>1 DEF CallerFacts, LifecycleTypeOK, Answers
<1>6. step'[c] = "publish" => answer'[c] = "none" /\ SnapshotValid(read'[c])
  BY <1>1 DEF CallerFacts, LifecycleTypeOK
<1>7. CallerStep(c)
  BY <1>1, <1>2, <1>4, <1>5 DEF CallerFacts, CallerStep, LifecycleTypeOK, Steps
<1>8. CallOK(c)'
  BY <1>2, <1>5, <1>6 DEF CallOK, SnapshotValid
<1>9. NewPublisher(c) /\ RowsStep
  BY <1>5 DEF NewPublisher, RowsStep
<1>10. QED
  BY <1>1, <1>7, <1>8, <1>9, SplitStep

(* What was read is what is published, since the digests agree.            *)
LEMMA AtomicPublishKeepsInv ==
    ASSUME Inv, NEW c \in Calls, AtomicPublish(c)
    PROVE  Inv' /\ RowsStep
<1> USE DEF AtomicPublish, End, At, Unread
<1>1. CallerFacts(c)
  BY CallerBefore
<1>2. /\ command'[c] = command[c] /\ step'[c] = "end" /\ read'[c] = read[c]
      /\ command[c].kind = "PUBLISH"
  BY <1>1 DEF CallerFacts, LifecycleTypeOK, CallOK
<1>3. answer'[c] \in Answers
  BY <1>1 DEF CallerFacts, LifecycleTypeOK, Answers
<1>4. CallerStep(c)
  BY <1>1, <1>2, <1>3 DEF CallerFacts, CallerStep, LifecycleTypeOK, Steps
<1>5. answer'[c] = "DONE" =>
         /\ rows[V(c)].status = "DRAFT"
         /\ rows' = [rows EXCEPT ![V(c)].status = "PUBLISHED", ![V(c)].digest = Digest(read[c])]
  BY <1>1 DEF CallerFacts, LifecycleTypeOK, Publishable
<1>6. answer'[c] = "DONE" => rows'[V(c)].status = "PUBLISHED"
  BY <1>1, <1>5 DEF CallerFacts, LifecycleTypeOK, Row
<1>7. CallOK(c)' /\ NewPublisher(c)
  BY <1>2, <1>5, <1>6 DEF CallOK, NewPublisher, V
<1>8. RowsStep
  <2>1. CASE UNCHANGED rows
    BY <2>1 DEF RowsStep
  <2>2. CASE Publishable(V(c)) /\ DigestMatches(c)
    <3> DEFINE old == rows[V(c)]
               row == [old EXCEPT !.status = "PUBLISHED", !.digest = Digest(read[c])]
    <3>1. old \in Row /\ old.status = "DRAFT" /\ Digest(read[c]) = Digest(old)
      BY <1>1, <2>2 DEF CallerFacts, Publishable, DigestMatches
    <3>2. Digest(old) \in Digests
      BY <3>1 DEF Digest, Digests, Row
    <3>3. /\ row \in Row /\ row.status = "PUBLISHED" /\ row.digest = Digest(read[c])
          /\ row.number = old.number /\ row.schema = old.schema /\ row.graph = old.graph
      BY <3>1, <3>2 DEF Row, Statuses
    <3>4. Valid(read[c])
      BY <1>1 DEF CallerFacts, CallOK, SnapshotValid, Valid
    <3>5. Valid(row) /\ row.digest = Digest(row)
      BY <3>1, <3>3, <3>4 DEF Valid, Digest
    <3>6. WellFormed(row, edition[V(c)]) /\ Later(old, row)
      BY <3>1, <3>3, <3>5 DEF WellFormed, Later
    <3>7. rows' = [rows EXCEPT ![V(c)] = row]
      BY <1>1, <2>2, <3>1 DEF CallerFacts, LifecycleTypeOK, Row
    <3>8. edition' = [edition EXCEPT ![V(c)] = edition[V(c)]]
      BY <1>1 DEF CallerFacts, LifecycleTypeOK
    <3>9. Write(V(c), row, edition[V(c)])
      BY <3>1, <3>6, <3>7, <3>8 DEF Write
    <3>10. QED
      BY <1>1, <3>3, <3>9 DEF CallerFacts, RowsStep
  <2>3. QED
    BY <2>1, <2>2
<1>9. QED
  BY <1>1, <1>4, <1>7, <1>8, SplitStep

(* A status change of a published version leaves its content alone.        *)
LEMMA StatusStep ==
    ASSUME LifecycleTypeOK, RowsOK, NEW v \in Versions, NEW s \in {"DEPRECATED", "REVOKED"},
           rows[v].status \notin {"ABSENT", "DRAFT"},
           rows' = [rows EXCEPT ![v].status = s], UNCHANGED edition
    PROVE  RowsStep
<1> DEFINE old == rows[v]
           row == [old EXCEPT !.status = s]
<1>1. old \in Row /\ edition[v] \in Nat
  BY DEF LifecycleTypeOK
<1>2. /\ row \in Row /\ row.status = s /\ row.digest = old.digest
      /\ row.number = old.number /\ row.schema = old.schema /\ row.graph = old.graph
  BY <1>1 DEF Row, Statuses
<1>3. Valid(old) /\ old.digest = Digest(old)
  BY <1>1 DEF RowsOK, WellFormed, Row, Statuses
<1>4. WellFormed(row, edition[v]) /\ Later(old, row)
  BY <1>1, <1>2, <1>3 DEF Row, WellFormed, Later, Valid, Digest
<1>5. rows' = [rows EXCEPT ![v] = row]
  BY <1>1 DEF LifecycleTypeOK, Row
<1>6. edition' = [edition EXCEPT ![v] = edition[v]]
  BY DEF LifecycleTypeOK
<1>7. QED
  BY <1>1, <1>2, <1>4, <1>5, <1>6 DEF Write, RowsStep

(* Deprecation is such a change.                                           *)
LEMMA AtomicDeprecateKeepsInv ==
    ASSUME Inv, NEW c \in Calls, AtomicDeprecate(c)
    PROVE  Inv' /\ RowsStep
<1> USE DEF AtomicDeprecate, End, At, Unread
<1>1. CallerFacts(c) /\ RowsOK
  BY CallerBefore DEF Inv
<1>2. command'[c] = command[c] /\ step'[c] = "end" /\ read'[c] = read[c] /\ answer'[c] \in Answers
  BY <1>1 DEF CallerFacts, LifecycleTypeOK, Answers
<1>3. CallerStep(c)
  BY <1>1, <1>2 DEF CallerFacts, CallerStep, LifecycleTypeOK, Steps
<1>4. CallOK(c)' /\ NewPublisher(c)
  BY <1>2 DEF CallOK, NewPublisher
<1>5. RowsStep
  <2>1. CASE rows[V(c)].status = "PUBLISHED"
    BY <1>1, <2>1, StatusStep DEF CallerFacts
  <2>2. CASE rows[V(c)].status # "PUBLISHED"
    BY <2>2 DEF RowsStep
  <2>3. QED
    BY <2>1, <2>2
<1>6. QED
  BY <1>1, <1>3, <1>4, <1>5, SplitStep

(* So is revocation.                                                       *)
LEMMA AtomicRevokeKeepsInv ==
    ASSUME Inv, NEW c \in Calls, AtomicRevoke(c)
    PROVE  Inv' /\ RowsStep
<1> USE DEF AtomicRevoke, End, At, Unread
<1>1. CallerFacts(c) /\ RowsOK
  BY CallerBefore DEF Inv
<1>2. command'[c] = command[c] /\ step'[c] = "end" /\ read'[c] = read[c] /\ answer'[c] \in Answers
  BY <1>1 DEF CallerFacts, LifecycleTypeOK, Answers
<1>3. CallerStep(c)
  BY <1>1, <1>2 DEF CallerFacts, CallerStep, LifecycleTypeOK, Steps
<1>4. CallOK(c)' /\ NewPublisher(c)
  BY <1>2 DEF CallOK, NewPublisher
<1>5. RowsStep
  <2>1. CASE rows[V(c)].status \in {"PUBLISHED", "DEPRECATED"}
    BY <1>1, <2>1, StatusStep DEF CallerFacts
  <2>2. CASE rows[V(c)].status \notin {"PUBLISHED", "DEPRECATED"}
    BY <2>2 DEF RowsStep
  <2>3. QED
    BY <2>1, <2>2
<1>6. QED
  BY <1>1, <1>3, <1>4, <1>5, SplitStep

(* A call that gives up leaves nothing behind.                             *)
LEMMA GiveUpKeepsInv ==
    ASSUME Inv, NEW c \in Calls, GiveUp(c)
    PROVE  Inv' /\ RowsStep
<1> USE DEF GiveUp, End
<1>1. CallerFacts(c)
  BY CallerBefore
<1>2. command'[c] = command[c] /\ step'[c] = "end" /\ read'[c] = read[c] /\ answer'[c] = "REFUSED"
  BY <1>1 DEF CallerFacts, LifecycleTypeOK
<1>3. CallerStep(c)
  BY <1>1, <1>2 DEF CallerFacts, CallerStep, LifecycleTypeOK, Steps, Answers
<1>4. CallOK(c)' /\ NewPublisher(c) /\ RowsStep
  BY <1>2 DEF CallOK, NewPublisher, RowsStep
<1>5. QED
  BY <1>1, <1>3, <1>4, SplitStep

--------------------------------------------------------------------------------
(* Every step keeps the invariant, and every behaviour therefore has it.   *)
LEMMA InvStep == Inv /\ [LifecycleNext]_vars => Inv' /\ RowsStep
<1> SUFFICES ASSUME Inv, [LifecycleNext]_vars PROVE Inv' /\ RowsStep
  OBVIOUS
<1>1. CASE UNCHANGED vars
  BY <1>1 DEF vars, Inv, LifecycleTypeOK, RowsOK, WellFormed, Valid, Digest, CallOK, OnePublisher,
              V, At, Effective, SnapshotValid, RowsStep
<1>2. ASSUME NEW c \in Calls,
             \/ \E cmd \in Commands : Call(c, cmd)
             \/ NextVersionNumber(c) \/ CreateDraftVersion(c)
             \/ CheckReplacement(c) \/ ReplaceDraftGraph(c)
             \/ ReadVersion(c) \/ ReadNodes(c) \/ ReadTransitions(c) \/ AtomicPublish(c)
             \/ AtomicDeprecate(c) \/ AtomicRevoke(c) \/ GiveUp(c)
      PROVE  Inv' /\ RowsStep
  BY <1>2, CallKeepsInv, NextVersionNumberKeepsInv, CreateDraftVersionKeepsInv,
     CheckReplacementKeepsInv, ReplaceDraftGraphKeepsInv, ReadVersionKeepsInv,
     ReadNodesKeepsInv, ReadTransitionsKeepsInv, AtomicPublishKeepsInv,
     AtomicDeprecateKeepsInv, AtomicRevokeKeepsInv, GiveUpKeepsInv
<1>3. QED
  BY <1>1, <1>2 DEF LifecycleNext

(* Every reachable state satisfies the invariant.                          *)
LEMMA Invariance == LifecycleSpec => []Inv
  BY InvInit, InvStep, PTL DEF LifecycleSpec

(* Whatever was ever published was valid when it was and carries the       *)
(* digest of the content it still has.                                     *)
THEOREM Sealed == LifecycleSpec => []PublishedIsSealed
<1>1. Inv => PublishedIsSealed
  BY DEF Inv, RowsOK, WellFormed, Valid, PublishedIsSealed
<1>2. QED
  BY <1>1, Invariance, PTL

(* An edited draft is valid, with the schema it keeps.                     *)
THEOREM DraftsStayValid == LifecycleSpec => []EditedDraftIsValid
<1>1. Inv => EditedDraftIsValid
  BY DEF Inv, LifecycleTypeOK, RowsOK, WellFormed, Valid, EditedDraftIsValid
<1>2. QED
  BY <1>1, Invariance, PTL

(* No step, of whatever call, changes the content of a published version.  *)
THEOREM ContentFrozen == LifecycleSpec => FrozenOncePublished
<1>1. Inv /\ RowsStep => \A v \in Versions :
         rows[v].status \notin {"ABSENT", "DRAFT"} => Frozen(v)
  <2> SUFFICES ASSUME Inv, RowsStep, NEW v \in Versions,
                      rows[v].status \notin {"ABSENT", "DRAFT"}
               PROVE  Frozen(v)
    OBVIOUS
  <2>1. rows \in [Versions -> Row] /\ edition \in [Versions -> Nat] /\ rows[v] \in Row
    BY DEF Inv, LifecycleTypeOK
  <2>2. CASE UNCHANGED <<rows, edition>>
    BY <2>1, <2>2 DEF Frozen, Row
  <2>3. ASSUME NEW w \in Versions, NEW row \in Row, NEW n \in Nat, Write(w, row, n)
        PROVE  Frozen(v)
    BY <2>1, <2>3 DEF Frozen, Row, Write, Later
  <2>4. QED
    BY <2>2, <2>3 DEF RowsStep
<1>2. QED
  BY <1>1, Invariance, InvStep, PTL DEF FrozenOncePublished, LifecycleSpec

(* However many calls publish a version, at most one is told it did.       *)
THEOREM PublishedOnce == LifecycleSpec => []OnePublisher
  BY Invariance, PTL DEF Inv

--------------------------------------------------------------------------------
(* The numbers in use are 1 to the number of versions, and a call that has *)
(* read MAX + 1 has a number that is in use by now or the next one: the    *)
(* unique index leaves it only the next one to insert.                     *)
NumbersOK ==
    /\ IsFiniteSet(Existing)
    /\ Numbers = 1 .. Cardinality(Existing)
    /\ \A c \in Calls : step[c] = "insert" => read[c].number \in 1 .. Cardinality(Existing) + 1

(* Initially there are no versions and no numbers.                         *)
LEMMA NumbersInit == LifecycleInit => NumbersOK
<1> SUFFICES ASSUME LifecycleInit PROVE NumbersOK
  OBVIOUS
<1>1. Existing = {} /\ Numbers = {}
  BY DEF LifecycleInit, Init, Existing, Numbers
<1>2. IsFiniteSet(Existing) /\ Cardinality(Existing) = 0
  BY <1>1, FS_EmptySet
<1>3. \A c \in Calls : step[c] # "insert"
  BY DEF LifecycleInit
<1>4. QED
  BY <1>1, <1>2, <1>3 DEF NumbersOK

(* The versions there are, and their numbers, stay as they are.            *)
SameVersions ==
    \A v \in Versions : /\ rows'[v].number = rows[v].number
                        /\ (rows'[v].status = "ABSENT") <=> (rows[v].status = "ABSENT")

(* A step that neither inserts a version nor reads the next number leaves  *)
(* the numbers alone.                                                      *)
LEMMA NumbersUndisturbed ==
    ASSUME NumbersOK, SameVersions,
           \A c \in Calls : step'[c] = "insert" => step[c] = "insert" /\ read'[c] = read[c]
    PROVE  NumbersOK'
<1>1. Existing' = Existing
  BY DEF Existing, SameVersions
<1>2. Numbers' = Numbers
  BY <1>1 DEF Numbers, Existing, SameVersions
<1>3. QED
  BY <1>1, <1>2 DEF NumbersOK

(* The number of versions is a natural number.                             *)
LEMMA CountIsNatural == NumbersOK => Cardinality(Existing) \in Nat
  BY FS_CardinalityType DEF NumbersOK

(* The latest number is the number of versions.                            *)
LEMMA NextVersionNumberRefines ==
    ASSUME Inv, NumbersOK, NEW c \in Calls, NextVersionNumber(c)
    PROVE  NumbersOK' /\ UNCHANGED rows
<1> DEFINE n == Cardinality(Existing)
<1>1. step \in [Calls -> Steps] /\ read \in [Calls -> Read]
  BY DEF Inv, LifecycleTypeOK
<1>2. UNCHANGED rows /\ Existing' = Existing /\ Numbers' = Numbers
  BY DEF NextVersionNumber, Unwritten, Existing, Numbers
<1>3. PICK m \in Numbers \cup {0} : read' = [read EXCEPT ![c].number = m + 1]
  BY DEF NextVersionNumber
<1>4. n \in Nat /\ m + 1 \in 1 .. n + 1
  BY <1>3, CountIsNatural DEF NumbersOK
<1>5. read'[c].number = m + 1
  BY <1>1, <1>3 DEF Read
<1>6. \A d \in Calls \ {c} : step'[d] = step[d] /\ read'[d] = read[d]
  BY <1>1, <1>3 DEF NextVersionNumber, Goto
<1>7. \A d \in Calls : step'[d] = "insert" => read'[d].number \in 1 .. n + 1
  BY <1>4, <1>5, <1>6 DEF NumbersOK
<1>8. QED
  BY <1>2, <1>7 DEF NumbersOK

(* Whoever inserts a version gives it the next number, whatever others     *)
(* inserted since it was read.                                             *)
LEMMA CreateDraftVersionRefines ==
    ASSUME Inv, NumbersOK, NEW c \in Calls, CreateDraftVersion(c)
    PROVE  NumbersOK' /\ [Next]_rows
<1> DEFINE n == Cardinality(Existing)
<1>1. LifecycleTypeOK /\ n \in Nat /\ UNCHANGED read
  BY CountIsNatural DEF Inv, CreateDraftVersion, Unread
<1>2. \A d \in Calls : step'[d] = "insert" => step[d] = "insert"
  BY <1>1 DEF LifecycleTypeOK, CreateDraftVersion, End
<1>3. CASE UNCHANGED rows
  BY <1>1, <1>2, <1>3, NumbersUndisturbed DEF SameVersions
<1>4. ASSUME NumberFree(read[c].number), NEW v \in Versions \ Existing,
             rows' = [rows EXCEPT ![v] = [number |-> read[c].number, status |-> "DRAFT",
                                          schema |-> command[c].schema,
                                          graph |-> EmptyGraph, digest |-> NoDigest]]
      PROVE  NumbersOK' /\ [Next]_rows
  <2>1. read[c].number = n + 1
    BY <1>1, <1>4 DEF NumbersOK, NumberFree, CreateDraftVersion, At
  <2>2. command[c].schema \in Schemas
    <3>1. CallerFacts(c) /\ step[c] = "insert"
      BY CallerBefore DEF CreateDraftVersion, At
    <3>2. command[c].kind = "CREATE"
      BY <3>1 DEF CallerFacts, CallOK
    <3>3. QED
      BY <3>1, <3>2, CommandAssumption DEF CallerFacts, Command
  <2>3. rows[v].status = "ABSENT"
    BY DEF Existing
  <2>4. Create(v, command[c].schema)
    BY <1>4, <2>1, <2>3 DEF Create
  <2>5. rows'[v].status = "DRAFT" /\ rows'[v].number = n + 1
    BY <1>1, <1>4, <2>1 DEF LifecycleTypeOK
  <2>6. \A w \in Versions \ {v} : rows'[w] = rows[w]
    BY <1>1, <1>4 DEF LifecycleTypeOK
  <2>7. Existing' = Existing \cup {v}
    BY <2>5, <2>6 DEF Existing
  <2>8. IsFiniteSet(Existing') /\ Cardinality(Existing') = n + 1
    BY <2>7, FS_AddElement DEF NumbersOK
  <2>9. Numbers' = Numbers \cup {n + 1}
    <3>1. v \notin Existing /\ Existing \subseteq Versions
      BY DEF Existing
    <3>2. \A w \in Existing : rows'[w].number = rows[w].number
      BY <2>6, <3>1
    <3>3. Numbers' = {rows'[w].number : w \in Existing \cup {v}}
      BY <2>7 DEF Numbers
    <3>4. QED
      BY <2>5, <3>2, <3>3 DEF Numbers
  <2>10. Numbers' = 1 .. n + 1
    BY <1>1, <2>9 DEF NumbersOK
  <2>11. \A d \in Calls : step'[d] = "insert" => read'[d].number \in 1 .. n + 2
    BY <1>1, <1>2 DEF NumbersOK
  <2>12. NumbersOK'
    BY <1>1, <2>8, <2>10, <2>11 DEF NumbersOK
  <2>13. QED
    BY <2>2, <2>4, <2>12 DEF Next
<1>5. QED
  BY <1>3, <1>4 DEF CreateDraftVersion

(* A replacement is an edit of the log: what it writes is valid.           *)
LEMMA ReplaceDraftGraphRefines ==
    ASSUME Inv, NEW c \in Calls, ReplaceDraftGraph(c)
    PROVE  SameVersions /\ [Next]_rows
<1>1. CallerFacts(c) /\ step[c] = "replace" /\ rows \in [Versions -> Row]
  BY CallerBefore DEF ReplaceDraftGraph, At, CallerFacts, LifecycleTypeOK
<1>2. CASE UNCHANGED rows
  BY <1>2 DEF SameVersions
<1>3. CASE StillDraft(V(c))
  <2>1. V(c) \in Versions /\ command[c].graph \in ValidGraphs /\ Effective(c) \in ValidSchemas
    BY <1>1 DEF CallerFacts, CallOK
  <2>2. rows' = [rows EXCEPT ![V(c)].graph = command[c].graph, ![V(c)].schema = Effective(c)]
    BY <1>1, <1>3, <2>1 DEF ReplaceDraftGraph, Effective, Row
  <2>3. Edit(V(c), command[c].graph, Effective(c))
    BY <1>3, <2>2 DEF Edit, StillDraft
  <2>4. SameVersions
    BY <1>1, <2>1, <2>2 DEF SameVersions, Row
  <2>5. QED
    BY <2>1, <2>3, <2>4 DEF Next
<1>4. QED
  BY <1>2, <1>3 DEF ReplaceDraftGraph

(* A publication finds, by the digest, the content that was validated.     *)
LEMMA AtomicPublishRefines ==
    ASSUME Inv, NEW c \in Calls, AtomicPublish(c)
    PROVE  SameVersions /\ [Next]_rows
<1>1. CallerFacts(c) /\ step[c] = "publish" /\ rows \in [Versions -> Row]
  BY CallerBefore DEF AtomicPublish, At, CallerFacts, LifecycleTypeOK
<1>2. CASE UNCHANGED rows
  BY <1>2 DEF SameVersions
<1>3. ASSUME Publishable(V(c)), DigestMatches(c),
             rows' = [rows EXCEPT ![V(c)].status = "PUBLISHED", ![V(c)].digest = Digest(read[c])]
      PROVE  SameVersions /\ [Next]_rows
  <2>1. V(c) \in Versions /\ read[c].graph \in ValidGraphs /\ read[c].schema \in ValidSchemas
    BY <1>1 DEF CallerFacts, CallOK, SnapshotValid
  <2>2. rows[V(c)].graph = read[c].graph /\ rows[V(c)].schema = read[c].schema
    BY <1>3 DEF DigestMatches, Digest
  <2>3. Publish(V(c))
    BY <1>3, <2>1, <2>2 DEF Publish, Publishable, DigestMatches
  <2>4. SameVersions
    BY <1>1, <1>3, <2>1 DEF SameVersions, Row, Publishable
  <2>5. QED
    BY <2>1, <2>3, <2>4 DEF Next
<1>4. QED
  BY <1>2, <1>3 DEF AtomicPublish

(* A change of status is the log's.                                        *)
LEMMA StatusRefines ==
    ASSUME Inv, NEW c \in Calls, AtomicDeprecate(c) \/ AtomicRevoke(c)
    PROVE  SameVersions /\ [Next]_rows
<1>1. CallerFacts(c) /\ V(c) \in Versions /\ rows \in [Versions -> Row]
  BY CallerBefore DEF AtomicDeprecate, AtomicRevoke, At, CallerFacts, LifecycleTypeOK
<1>2. CASE UNCHANGED rows
  BY <1>2 DEF SameVersions
<1>3. ASSUME Deprecate(V(c)) \/ Revoke(V(c))
      PROVE  SameVersions /\ [Next]_rows
  <2>1. SameVersions
    BY <1>1, <1>3 DEF SameVersions, Deprecate, Revoke, Row
  <2>2. QED
    BY <1>1, <1>3, <2>1 DEF Next
<1>4. QED
  BY <1>2, <1>3 DEF AtomicDeprecate, AtomicRevoke, Deprecate, Revoke

(* Every step of a use case is a step of the log or invisible to it.       *)
LEMMA StepRefines == Inv /\ NumbersOK /\ [LifecycleNext]_vars => NumbersOK' /\ [Next]_rows
<1> SUFFICES ASSUME Inv, NumbersOK, [LifecycleNext]_vars PROVE NumbersOK' /\ [Next]_rows
  OBVIOUS
<1>1. step \in [Calls -> Steps]
  BY DEF Inv, LifecycleTypeOK
<1>2. CASE UNCHANGED vars
  BY <1>2, NumbersUndisturbed DEF vars, SameVersions
<1>3. ASSUME NEW c \in Calls,
             \/ \E cmd \in Commands : Call(c, cmd)
             \/ CheckReplacement(c) \/ ReadVersion(c) \/ ReadNodes(c) \/ ReadTransitions(c)
             \/ GiveUp(c)
      PROVE  NumbersOK' /\ [Next]_rows
  <2>1. UNCHANGED rows
    BY <1>3 DEF Call, CheckReplacement, ReadVersion, ReadNodes, ReadTransitions, GiveUp, Unwritten
  <2>2. SameVersions
    BY <2>1 DEF SameVersions
  <2>3. \A d \in Calls : step'[d] = "insert" => step[d] = "insert" /\ read'[d] = read[d]
    <3>1. read \in [Calls -> Read]
      BY DEF Inv, LifecycleTypeOK
    <3>2. \A d \in Calls \ {c} : step'[d] = step[d] /\ read'[d] = read[d]
      BY <1>1, <1>3, <3>1 DEF Call, CheckReplacement, ReadVersion, ReadNodes, ReadTransitions,
                              GiveUp, Goto, End
    <3>3. ASSUME NEW cmd \in Commands, Call(c, cmd)
          PROVE  step'[c] # "insert"
      BY <1>1, <3>3, CommandAssumption DEF Call, Goto, FirstStep, Command
    <3>4. step'[c] # "insert"
      BY <1>1, <1>3, <3>3 DEF CheckReplacement, ReadVersion, ReadNodes, ReadTransitions, GiveUp,
                              Goto, End
    <3>5. QED
      BY <3>2, <3>4
  <2>4. QED
    BY <2>1, <2>2, <2>3, NumbersUndisturbed
<1>4. ASSUME NEW c \in Calls,
             ReplaceDraftGraph(c) \/ AtomicPublish(c) \/ AtomicDeprecate(c) \/ AtomicRevoke(c)
      PROVE  NumbersOK' /\ [Next]_rows
  <2>1. SameVersions /\ [Next]_rows
    BY <1>4, ReplaceDraftGraphRefines, AtomicPublishRefines, StatusRefines
  <2>2. \A d \in Calls : step'[d] = "insert" => step[d] = "insert" /\ read'[d] = read[d]
    BY <1>1, <1>4 DEF ReplaceDraftGraph, AtomicPublish, AtomicDeprecate, AtomicRevoke, End, Unread
  <2>3. QED
    BY <2>1, <2>2, NumbersUndisturbed
<1>5. ASSUME NEW c \in Calls, NextVersionNumber(c)
      PROVE  NumbersOK' /\ [Next]_rows
  BY <1>5, NextVersionNumberRefines
<1>6. ASSUME NEW c \in Calls, CreateDraftVersion(c)
      PROVE  NumbersOK' /\ [Next]_rows
  BY <1>6, CreateDraftVersionRefines
<1>7. QED
  BY <1>2, <1>3, <1>4, <1>5, <1>6 DEF LifecycleNext

(* The use cases change the versions of a definition as if each were one   *)
(* step: the numbers have no gaps and no repetitions although MAX + 1 and  *)
(* the insert are two statements, and a graph is published only in the     *)
(* state in which it is valid although it was validated before.            *)
THEOREM LogImplemented == LifecycleSpec => ImplementsVersionLog
<1>1. LifecycleInit => Init
  BY DEF LifecycleInit
<1>2. QED
  BY <1>1, Invariance, NumbersInit, StepRefines, PTL DEF LifecycleSpec, ImplementsVersionLog, Spec
--------------------------------------------------------------------------------
(* The authority of the calls.  A call writes only what its caller was     *)
(* entitled to, for any number of calls, principals and changes of what    *)
(* they may do.  The invariant says of a call under way which facts it has *)
(* already found, that each of them was true at some moment of the call,   *)
(* and that what is true now is true at such a moment.  The facts about    *)
(* the versions are those proved above: a look-up changes none of them.    *)

(* What a call found before the statements it has already run.             *)
FoundBefore(c) ==
    CASE step[c] = "insert" -> Caller
      [] step[c] \in {"replace", "nodes", "transitions", "publish"} -> {"PRINCIPAL"}
      [] OTHER -> {}

Grounded(c) ==
    /\ checked[c] <= Len(Due(c))
    /\ \A k \in 1..checked[c] : Due(c)[k] \in seen[c]
    /\ FoundBefore(c) \subseteq seen[c]
    /\ step[c] \notin {"idle", "end"} => standing \subseteq seen[c]

AuthorityInv ==
    /\ Inv
    /\ checked \in [Calls -> Nat] /\ DOMAIN seen = Calls
    /\ \A c \in Calls : Grounded(c)

--------------------------------------------------------------------------------
(* Where a statement can have brought its call.                            *)
Came(c) ==
    /\ step[c] # "end" /\ step'[c] # "idle"
    /\ step'[c] = "insert" => step[c] = "number"
    /\ step'[c] = "replace" => step[c] = "check"
    /\ step'[c] = "nodes" => step[c] = "version"
    /\ step'[c] = "transitions" => step[c] = "nodes"
    /\ step'[c] = "publish" => step[c] = "transitions"
    /\ answer'[c] = "REFUSED" => step'[c] = "end"

(* From where a call can succeed, and what it has published then.          *)
Ended(c) ==
    Succeeds(c) =>
        /\ step[c] \in {"insert", "replace", "publish", "status"} /\ step'[c] = "end"
        /\ command[c].kind = "PUBLISH" =>
              step[c] = "publish" /\ rows'[V(c)].graph = read[c].graph

(* A statement moves one call, and touches no other.                       *)
OneMoves == \E c \in Calls :
    /\ Moves(c) /\ Came(c) /\ Ended(c)
    /\ \A d \in Calls \ {c} : ~Moves(d) /\ read'[d] = read[d] /\ answer'[d] = answer[d]

(* A publishing call that finds the digest it computed publishes the graph *)
(* it has read: the digest covers it.                                      *)
LEMMA PublishesWhatItRead ==
    ASSUME Inv, NEW c \in Calls, AtomicPublish(c), Succeeds(c)
    PROVE  rows'[V(c)].graph = read[c].graph
<1>1. /\ DigestMatches(c)
      /\ rows' = [rows EXCEPT ![V(c)].status = "PUBLISHED", ![V(c)].digest = Digest(read[c])]
  BY DEF AtomicPublish, End, Succeeds, Inv, LifecycleTypeOK
<1>2. rows[V(c)].graph = read[c].graph
  BY <1>1 DEF DigestMatches, Digest
<1>3. V(c) \in Versions /\ rows[V(c)] \in Row
  <2>1. command[c] \in Commands
    BY DEF AtomicPublish, At, Inv, LifecycleTypeOK
  <2>2. QED
    BY <2>1, CommandAssumption DEF Command, V, Inv, LifecycleTypeOK
<1>4. QED
  BY <1>1, <1>2, <1>3 DEF Row, Inv, LifecycleTypeOK

(* Every statement of the service is of that kind.                         *)
LEMMA OneMovesStep == ASSUME Inv, LifecycleNext PROVE OneMoves
<1>1. PICK c \in Calls :
             \/ \E cmd \in Commands : Call(c, cmd)
             \/ NextVersionNumber(c) \/ CreateDraftVersion(c)
             \/ CheckReplacement(c) \/ ReplaceDraftGraph(c)
             \/ ReadVersion(c) \/ ReadNodes(c) \/ ReadTransitions(c) \/ AtomicPublish(c)
             \/ AtomicDeprecate(c) \/ AtomicRevoke(c) \/ GiveUp(c)
  BY DEF LifecycleNext
<1>2. step \in [Calls -> Steps] /\ answer \in [Calls -> Answers] /\ read \in [Calls -> Read]
  BY DEF Inv, LifecycleTypeOK
<1>3. /\ step[c] \in {"number", "insert"} => command[c].kind = "CREATE"
      /\ step[c] \in {"check", "replace"} => command[c].kind = "REPLACE"
      /\ step[c] # "end" => answer[c] = "none"
  <2>1. answer[c] # "none" => step[c] = "end"
    BY DEF Inv, CallOK
  <2>2. QED
    BY <2>1 DEF Inv, CallOK
<1>4. SUFFICES /\ Moves(c) /\ Came(c) /\ Ended(c)
               /\ \A d \in Calls \ {c} : ~Moves(d) /\ read'[d] = read[d] /\ answer'[d] = answer[d]
  BY DEF OneMoves
<1> USE DEF Moves, Came, Ended, Succeeds, At, Goto, End, Unread, Unwritten
<1>5. CASE \E cmd \in Commands : Call(c, cmd)
  BY <1>2, <1>3, <1>5 DEF Call, FirstStep
<1>6. CASE NextVersionNumber(c)
  BY <1>2, <1>3, <1>6 DEF NextVersionNumber
<1>7. CASE CreateDraftVersion(c)
  BY <1>2, <1>3, <1>7 DEF CreateDraftVersion
<1>8. CASE CheckReplacement(c)
  BY <1>2, <1>3, <1>8 DEF CheckReplacement
<1>9. CASE ReplaceDraftGraph(c)
  BY <1>2, <1>3, <1>9 DEF ReplaceDraftGraph
<1>10. CASE ReadVersion(c)
  BY <1>2, <1>3, <1>10 DEF ReadVersion
<1>11. CASE ReadNodes(c)
  BY <1>2, <1>3, <1>11 DEF ReadNodes
<1>12. CASE ReadTransitions(c)
  BY <1>2, <1>3, <1>12 DEF ReadTransitions
<1>13. CASE AtomicPublish(c)
  <2>1. Succeeds(c) => rows'[V(c)].graph = read[c].graph
    BY <1>13, PublishesWhatItRead
  <2>2. QED
    BY <1>2, <1>13, <2>1 DEF AtomicPublish
<1>14. CASE AtomicDeprecate(c)
  BY <1>2, <1>14 DEF AtomicDeprecate
<1>15. CASE AtomicRevoke(c)
  BY <1>2, <1>15 DEF AtomicRevoke
<1>16. CASE GiveUp(c)
  BY <1>2, <1>16 DEF GiveUp
<1>17. QED
  BY <1>1, <1>5, <1>6, <1>7, <1>8, <1>9, <1>10, <1>11, <1>12, <1>13, <1>14, <1>15, <1>16

--------------------------------------------------------------------------------
(* What is due is a sequence; of a publication, the fixed principals and   *)
(* then the domain and its owner.                                          *)
LEMMA DueSequence ==
    ASSUME NEW s, NEW g, s = "publish" => g \in Graphs
    PROVE  DueBefore(s, g) \in Seq(Caller \cup Principals)
<1>1. CASE s = "publish"
  <2>1. FixedPrincipals[g] \in Seq(Principals)
    BY <1>1, AuthorityAssumption
  <2>2. DueBefore(s, g) = FixedPrincipals[g] \o <<"DOMAIN", "OWNER">>
    BY <1>1 DEF DueBefore, PublishDue
  <2>3. QED
    BY <2>1, <2>2 DEF Caller
<1>2. CASE s \in {"number", "status"}
  <2>1. DueBefore(s, g) = <<"PRINCIPAL", "DOMAIN", "OWNER">>
    BY <1>2 DEF DueBefore, CallerDue
  <2>2. QED
    BY <2>1 DEF Caller
<1>3. CASE s \in {"check", "version"}
  BY <1>3 DEF DueBefore, Caller
<1>4. CASE s = "replace"
  BY <1>4 DEF DueBefore, Caller
<1>5. CASE s \notin {"number", "status", "check", "version", "replace", "publish"}
  BY <1>5 DEF DueBefore
<1>6. QED
  BY <1>1, <1>2, <1>3, <1>4, <1>5

(* A graph about to be published is one of the valid ones, and so typed.   *)
LEMMA PublishedGraph ==
    ASSUME Inv, NEW c \in Calls PROVE step[c] = "publish" => read[c].graph \in Graphs
BY GraphAssumption DEF Inv, CallOK, SnapshotValid

LEMMA PublishedGraphNext ==
    ASSUME Inv', NEW c \in Calls PROVE step'[c] = "publish" => read'[c].graph \in Graphs
BY GraphAssumption DEF Inv, CallOK, SnapshotValid

(* When all look-ups that are due are done, what they are for is grounded. *)
LEMMA AllFound ==
    ASSUME AuthorityInv, NEW c \in Calls, checked[c] = Len(Due(c))
    PROVE  /\ step[c] \in {"number", "insert", "replace", "publish", "status"} =>
                 Caller \subseteq seen[c]
           /\ step[c] \in {"check", "version"} => "PRINCIPAL" \in seen[c]
           /\ step[c] = "publish" => Named(read[c].graph) \subseteq seen[c]
<1>1. Grounded(c)
  BY DEF AuthorityInv
<1>2. CASE step[c] \in {"number", "status"}
  <2>1. Due(c) = <<"PRINCIPAL", "DOMAIN", "OWNER">>
    BY <1>2 DEF Due, DueBefore, CallerDue
  <2>2. \A f \in Caller : f \in seen[c]
    BY <1>1, <2>1 DEF Grounded, Caller
  <2>3. QED
    BY <1>2, <2>2
<1>3. CASE step[c] = "insert"
  BY <1>1, <1>3 DEF Grounded, FoundBefore
<1>4. CASE step[c] \in {"check", "version"}
  <2>1. Due(c) = <<"PRINCIPAL">>
    BY <1>4 DEF Due, DueBefore
  <2>2. "PRINCIPAL" \in seen[c]
    BY <1>1, <2>1 DEF Grounded
  <2>3. QED
    BY <1>4, <2>2
<1>5. CASE step[c] = "replace"
  <2>1. Due(c) = <<"DOMAIN", "OWNER">>
    BY <1>5 DEF Due, DueBefore
  <2>2. "DOMAIN" \in seen[c] /\ "OWNER" \in seen[c]
    BY <1>1, <2>1 DEF Grounded
  <2>3. {"PRINCIPAL"} \subseteq seen[c]
    BY <1>1, <1>5 DEF Grounded, FoundBefore
  <2>4. QED
    BY <1>5, <2>2, <2>3 DEF Caller
<1>6. CASE step[c] = "publish"
  <2> DEFINE fixed == FixedPrincipals[read[c].graph]
  <2>1. Due(c) = fixed \o <<"DOMAIN", "OWNER">> /\ fixed \in Seq(Principals)
    BY <1>6, PublishedGraph, AuthorityAssumption DEF AuthorityInv, Due, DueBefore, PublishDue
  <2>2. Named(read[c].graph) \subseteq seen[c] /\ "DOMAIN" \in seen[c] /\ "OWNER" \in seen[c]
    <3> HIDE DEF fixed
    <3>1. /\ Len(Due(c)) = Len(fixed) + 2 /\ Len(fixed) \in Nat /\ DOMAIN fixed = 1..Len(fixed)
          /\ \A k \in 1..Len(fixed) : Due(c)[k] = fixed[k]
          /\ Due(c)[Len(fixed) + 1] = "DOMAIN" /\ Due(c)[Len(fixed) + 2] = "OWNER"
      BY <2>1
    <3>2. \A k \in 1..Len(Due(c)) : Due(c)[k] \in seen[c]
      BY <1>1 DEF Grounded
    <3>3. \A k \in 1..Len(fixed) : fixed[k] \in seen[c]
      BY <3>1, <3>2
    <3>4. "DOMAIN" \in seen[c] /\ "OWNER" \in seen[c]
      BY <3>1, <3>2
    <3>5. Named(read[c].graph) = {fixed[k] : k \in DOMAIN fixed}
      BY DEF Named, fixed
    <3>6. QED
      BY <3>1, <3>3, <3>4, <3>5
  <2>3. {"PRINCIPAL"} \subseteq seen[c]
    BY <1>1, <1>6 DEF Grounded, FoundBefore
  <2>4. QED
    BY <1>6, <2>2, <2>3 DEF Caller
<1>7. QED
  BY <1>2, <1>3, <1>4, <1>5, <1>6

(* What is due and found depends only on where a call is and has read.     *)
LEMMA OthersStayGrounded ==
    ASSUME AuthorityInv, NEW c \in Calls, ~Moves(c), read'[c] = read[c],
           checked'[c] = checked[c], seen[c] \subseteq seen'[c],
           step[c] \notin {"idle", "end"} => standing' \subseteq seen'[c]
    PROVE  Grounded(c)'
<1>1. Due(c)' = Due(c) /\ FoundBefore(c)' = FoundBefore(c)
  BY DEF Moves, Due, DueBefore, FoundBefore, PublishDue, CallerDue
<1>2. Grounded(c)
  BY DEF AuthorityInv
<1>3. step'[c] = step[c]
  BY DEF Moves
<1>4. QED
  BY <1>1, <1>2, <1>3 DEF Grounded

(* A call has found nothing before it begins.                              *)
LEMMA AuthorityInvInit == AuthorityInit => AuthorityInv
<1> SUFFICES ASSUME AuthorityInit PROVE AuthorityInv
  OBVIOUS
<1>1. Inv
  BY InvInit DEF AuthorityInit
<1>2. \A c \in Calls : step[c] = "idle" /\ checked[c] = 0 /\ seen[c] = {}
  BY DEF AuthorityInit, LifecycleInit
<1>3. ASSUME NEW c \in Calls PROVE Grounded(c)
  <2>1. Due(c) = << >> /\ FoundBefore(c) = {}
    BY <1>2 DEF Due, DueBefore, FoundBefore
  <2>2. QED
    BY <1>2, <2>1 DEF Grounded
<1>4. QED
  BY <1>1, <1>3 DEF AuthorityInv, AuthorityInit

(* A statement carries what was found over to the next one.                *)
LEMMA StatementKeepsInv == ASSUME AuthorityInv, Statement PROVE AuthorityInv'
<1>1. Inv'
  BY InvStep DEF AuthorityInv, Statement
<1>2. /\ checked' = [c \in Calls |-> IF Moves(c) THEN 0 ELSE checked[c]]
      /\ seen' = [c \in Calls |-> IF ~Moves(c) THEN seen[c]
                                  ELSE IF step[c] = "idle" THEN standing
                                  ELSE IF step'[c] = "end" THEN {} ELSE seen[c]]
      /\ standing' = standing
  BY DEF Statement
<1>3. PICK c \in Calls :
         /\ Moves(c) /\ Came(c) /\ Ended(c)
         /\ \A d \in Calls \ {c} : ~Moves(d) /\ read'[d] = read[d] /\ answer'[d] = answer[d]
  BY OneMovesStep DEF OneMoves, AuthorityInv, Statement
<1>4. ASSUME NEW d \in Calls \ {c} PROVE Grounded(d)'
  <2>1. Grounded(d)
    BY DEF AuthorityInv
  <2>2. ~Moves(d) /\ read'[d] = read[d] /\ checked'[d] = checked[d] /\ seen'[d] = seen[d]
    BY <1>2, <1>3
  <2>3. QED
    BY <1>2, <2>1, <2>2, OthersStayGrounded DEF Grounded
<1>5. Grounded(c)'
  <2>1. checked'[c] = 0
    BY <1>2, <1>3
  <2>2. 0 <= Len(Due(c)')
    <3>1. Due(c)' \in Seq(Caller \cup Principals)
      BY <1>1, PublishedGraphNext, DueSequence DEF Due
    <3>2. QED
      BY <3>1
  <2>3. step'[c] \notin {"idle", "end"} => standing' \subseteq seen'[c]
    <3>1. step[c] \notin {"idle", "end"} => standing \subseteq seen[c]
      BY DEF AuthorityInv, Grounded
    <3>2. step[c] # "end"
      BY <1>3 DEF Came
    <3>3. QED
      BY <1>2, <1>3, <3>1, <3>2
  <2>4. FoundBefore(c)' \subseteq seen'[c]
    <3>1. CASE step'[c] \in {"insert", "replace", "nodes", "transitions", "publish"}
      <4>1. /\ step[c] \notin {"idle", "end"} /\ step'[c] # "end" /\ answer'[c] # "REFUSED"
            /\ step[c] \in {"number", "check", "version", "nodes", "transitions"}
        BY <1>3, <3>1 DEF Came
      <4>2. checked[c] = Len(Due(c))
        BY <1>3, <4>1 DEF Statement, Admitted
      <4>3. seen'[c] = seen[c]
        BY <1>2, <1>3, <4>1
      <4>4. step'[c] = "insert" => Caller \subseteq seen[c]
        BY <1>3, <4>2, AllFound DEF Came
      <4>5. step'[c] \in {"replace", "nodes"} => "PRINCIPAL" \in seen[c]
        BY <1>3, <4>2, AllFound DEF Came
      <4>6. step'[c] \in {"transitions", "publish"} => "PRINCIPAL" \in seen[c]
        <5>1. FoundBefore(c) \subseteq seen[c]
          BY DEF AuthorityInv, Grounded
        <5>2. QED
          BY <1>3, <5>1 DEF Came, FoundBefore
      <4>7. QED
        BY <3>1, <4>3, <4>4, <4>5, <4>6 DEF FoundBefore
    <3>2. CASE step'[c] \notin {"insert", "replace", "nodes", "transitions", "publish"}
      BY <3>2 DEF FoundBefore
    <3>3. QED
      BY <3>1, <3>2
  <2>5. QED
    BY <2>1, <2>2, <2>3, <2>4 DEF Grounded
<1>6. QED
  BY <1>1, <1>2, <1>4, <1>5 DEF AuthorityInv

(* A look-up is grounded in what is true while it is made.                 *)
LEMMA LookUpKeepsInv == ASSUME AuthorityInv, NEW c \in Calls, LookUp(c) PROVE AuthorityInv'
<1>1. UNCHANGED vars /\ standing' = standing /\ seen' = seen
  BY DEF LookUp
<1>2. Inv'
  BY <1>1, InvStep DEF AuthorityInv
<1>3. checked' = [checked EXCEPT ![c] = @ + 1] /\ checked \in [Calls -> Nat]
  BY DEF LookUp, AuthorityInv
<1>4. step' = step /\ read' = read
  BY <1>1 DEF vars
<1>5. ASSUME NEW d \in Calls \ {c} PROVE Grounded(d)'
  <2>1. Grounded(d)
    BY DEF AuthorityInv
  <2>2. QED
    BY <1>1, <1>3, <1>4, <2>1, OthersStayGrounded DEF Moves, Grounded
<1>6. Grounded(c)'
  <2>1. Grounded(c) /\ checked[c] < Len(Due(c))
    BY DEF AuthorityInv, LookUp
  <2>2. step[c] \notin {"idle", "end"}
    BY <2>1, <1>3 DEF Due, DueBefore
  <2>3. Due(c)[checked[c] + 1] \in seen[c]
    BY <2>1, <2>2 DEF LookUp, Grounded
  <2>4. Due(c)' = Due(c) /\ FoundBefore(c)' = FoundBefore(c)
    BY <1>4 DEF Due, DueBefore, FoundBefore, PublishDue, CallerDue
  <2>5. checked'[c] = checked[c] + 1 /\ checked[c] \in Nat
    BY <1>3
  <2>6. checked'[c] <= Len(Due(c))
    <3>1. Due(c) \in Seq(Caller \cup Principals)
      BY PublishedGraph, DueSequence DEF AuthorityInv, Due
    <3>2. Len(Due(c)) \in Nat
      BY <3>1
    <3>3. QED
      BY <2>1, <2>5, <3>2
  <2>7. \A k \in 1..checked'[c] : Due(c)[k] \in seen[c]
    <3>1. ASSUME NEW k \in 1..checked'[c] PROVE Due(c)[k] \in seen[c]
      <4>1. k \in 1..checked[c] \/ k = checked[c] + 1
        BY <2>5
      <4>2. CASE k \in 1..checked[c]
        BY <2>1, <4>2 DEF Grounded
      <4>3. CASE k = checked[c] + 1
        BY <2>3, <4>3
      <4>4. QED
        BY <4>1, <4>2, <4>3
    <3>2. QED
      BY <3>1
  <2>8. QED
    BY <1>1, <1>4, <2>1, <2>4, <2>6, <2>7 DEF Grounded
<1>7. QED
  BY <1>1, <1>2, <1>3, <1>5, <1>6 DEF AuthorityInv

(* What changes from outside is seen by every call under way.              *)
LEMMA AdministerKeepsInv == ASSUME AuthorityInv, Administer PROVE AuthorityInv'
<1>1. UNCHANGED vars /\ checked' = checked
  BY DEF Administer
<1>2. Inv'
  BY <1>1, InvStep DEF AuthorityInv
<1>3. step' = step /\ read' = read
  BY <1>1 DEF vars
<1>4. seen' = [c \in Calls |-> IF step[c] \in {"idle", "end"} THEN seen[c]
                               ELSE seen[c] \cup standing']
  BY DEF Administer
<1>5. ASSUME NEW c \in Calls PROVE Grounded(c)'
  BY <1>1, <1>3, <1>4, OthersStayGrounded DEF Moves
<1>6. QED
  BY <1>1, <1>2, <1>4, <1>5 DEF AuthorityInv

--------------------------------------------------------------------------------
(* Every step keeps the invariant.                                         *)
LEMMA AuthorityInvStep == AuthorityInv /\ [AuthorityNext]_authorityVars => AuthorityInv'
<1> SUFFICES ASSUME AuthorityInv, [AuthorityNext]_authorityVars PROVE AuthorityInv'
  OBVIOUS
<1>1. CASE UNCHANGED authorityVars
  <2>1. UNCHANGED vars /\ UNCHANGED <<standing, changes, checked, seen>>
    BY <1>1 DEF authorityVars
  <2>2. Inv'
    BY <2>1, InvStep DEF AuthorityInv
  <2>3. step' = step /\ read' = read
    BY <2>1 DEF vars
  <2>4. ASSUME NEW c \in Calls PROVE Grounded(c)'
    <3>1. Grounded(c)
      BY DEF AuthorityInv
    <3>2. QED
      BY <2>1, <2>3, <3>1, OthersStayGrounded DEF Moves, Grounded
  <2>5. QED
    BY <2>1, <2>2, <2>4 DEF AuthorityInv
<1>2. QED
  BY <1>1, StatementKeepsInv, LookUpKeepsInv, AdministerKeepsInv DEF AuthorityNext

(* Every reachable state satisfies it.                                     *)
LEMMA AuthorityInvariance == AuthoritySpec => []AuthorityInv
  BY AuthorityInvInit, AuthorityInvStep, PTL DEF AuthoritySpec

(* A call that succeeds does so in a statement with all its look-ups done. *)
LEMMA SuccessIsGrounded ==
    ASSUME AuthorityInv, Statement, NEW c \in Calls, Succeeds(c)
    PROVE  /\ Caller \subseteq seen[c]
           /\ command[c].kind = "PUBLISH" => Named(rows'[V(c)].graph) \subseteq seen[c]
<1>1. PICK d \in Calls :
         /\ Moves(d) /\ Came(d) /\ Ended(d)
         /\ \A e \in Calls \ {d} : ~Moves(e) /\ read'[e] = read[e] /\ answer'[e] = answer[e]
  BY OneMovesStep DEF OneMoves, AuthorityInv, Statement
<1>2. c = d
  BY <1>1 DEF Succeeds
<1>3. checked[c] = Len(Due(c))
  BY <1>1, <1>2 DEF Statement, Admitted, Succeeds
<1>4. /\ step[c] \in {"insert", "replace", "publish", "status"}
      /\ command[c].kind = "PUBLISH" =>
            step[c] = "publish" /\ rows'[V(c)].graph = read[c].graph
  BY <1>1, <1>2 DEF Ended
<1>5. Named(rows'[V(c)].graph) = Named(read[c].graph) \/ command[c].kind # "PUBLISH"
  BY <1>4
<1>6. QED
  BY <1>3, <1>4, <1>5, AllFound

(* Only statements succeed.                                                *)
LEMMA OthersDoNotSucceed ==
    ASSUME [AuthorityNext]_authorityVars, NEW c \in Calls, Succeeds(c) PROVE Statement
  BY DEF AuthorityNext, authorityVars, vars, LookUp, Administer, Succeeds

(* Whoever writes was entitled to at some moment of the call.              *)
THEOREM OnlyTheEntitledWrite == AuthoritySpec => WritersWereEntitled
<1>1. AuthorityInv /\ [AuthorityNext]_authorityVars =>
         [\A c \in Calls : Succeeds(c) => Caller \subseteq seen[c]]_authorityVars
  BY OthersDoNotSucceed, SuccessIsGrounded
<1>2. QED
  BY <1>1, AuthorityInvariance, PTL DEF AuthoritySpec, WritersWereEntitled

(* Every fixed principal of a published graph was enabled meanwhile.       *)
THEOREM OnlyEnabledAreAssigned == AuthoritySpec => AssigneesWereEnabled
<1>1. AuthorityInv /\ [AuthorityNext]_authorityVars =>
         [\A c \in Calls : (Succeeds(c) /\ command[c].kind = "PUBLISH")
             => Named(rows'[V(c)].graph) \subseteq seen[c]]_authorityVars
  BY OthersDoNotSucceed, SuccessIsGrounded
<1>2. QED
  BY <1>1, AuthorityInvariance, PTL DEF AuthoritySpec, AssigneesWereEnabled

(* With its look-ups the service does nothing that it may not do without:  *)
(* all that LifecycleProofs proves holds here too.                         *)
THEOREM LookUpsOnlyRestrict == AuthoritySpec => LifecycleSpec
<1>1. AuthorityInit => LifecycleInit
  BY DEF AuthorityInit
<1>2. [AuthorityNext]_authorityVars => [LifecycleNext]_vars
  BY DEF AuthorityNext, Statement, LookUp, Administer, authorityVars
<1>3. QED
  BY <1>1, <1>2, PTL DEF AuthoritySpec, LifecycleSpec
================================================================================
