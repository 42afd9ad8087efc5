---------------------------- MODULE MachineState ----------------------------
(***************************************************************************)
(* A @state object of wunderspec/machine.py while an action writes it: by  *)
(* whole fields, by key, in edit sessions, through a SubMachineState, and  *)
(* in alternatives, of which the arms that are not chosen run as well and  *)
(* are undone (StateCheckpoint of exec/context.py).                        *)
(*                                                                         *)
(* Fields are maps from keys; the n-th write writes n.  `meant` is what    *)
(* the writes say: each takes effect when it is made, those of a deferred  *)
(* session when the session ends, and those of an arm if it is chosen.     *)
(***************************************************************************)
EXTENDS Integers, Sequences, SequencesExt

CONSTANTS
  MachineFields,  \* _vars
  Upsert,         \* the fields declared with UPSERT
  ObjectKeys,     \* keys of the maps; a new map has the key 1
  MaxWrites       \* bound: writes, and blocks that are opened

VARIABLES
  object,      \* the state object
  withBlocks,  \* the with-blocks that are open: edit sessions and alternatives
  recorded,    \* the value of the last __edit_callback for each field
  meant,       \* what the object should be
  written,     \* the fields that were written in this action, on this path
  tangled,     \* fields that a session and something else wrote
  writes,      \* writes and blocks so far
  status       \* empty, or the field whose write raised AttributeError, in a tuple

machineVars == <<object, withBlocks, recorded, meant, written, tangled, writes, status>>

----------------------------------------------------------------------------
(* Values: MapSet of the interpreter. *)

Whole(n) == [k \in {1} |-> n]
PutKey(f, m, k, n) ==
  IF k \in DOMAIN m \/ f \in Upsert
  THEN [x \in DOMAIN m \cup {k} |-> IF x = k THEN n ELSE m[x]] ELSE m

----------------------------------------------------------------------------
(* The object: the values, and who may still write them. *)

NewObject ==
  [value |-> [f \in MachineFields |-> Whole(0)],
   count |-> [f \in MachineFields |-> 0],       \* __f_cntr
   edited |-> {}]                               \* __edit_written_fields

\* machine_var.__set__
MaySet(o, f) == o.count[f] = 0 /\ f \notin o.edited
Set(o, f, v) == [o EXCEPT !.value[f] = v, !.count[f] = 1]
\* on_update, apply and _assign_field of StateUpdatesBuilder
MayEdit(o, f) == o.count[f] = 0
Edit(o, f, v) == [o EXCEPT !.value[f] = v, !.edited = @ \cup {f}]
\* _finalize
Finalized(o) == [o EXCEPT !.count = [f \in MachineFields |-> 0], !.edited = {}]
\* Mutant of CopyFrom: the counters stay.
CopyFromValues(o, other) == [o EXCEPT !.value = other.value]
\* _copy_from
CopyFrom(o, other) == other

----------------------------------------------------------------------------
(* Edit sessions: a builder for each field that is written by key, whose     *)
(* value starts from the field's when it is touched first; a replacement for *)
(* each field that is assigned.  `says` is what the session means for the    *)
(* fields that it holds.                                                     *)

NewSession(deferred) ==
  [kind |-> "session", deferred |-> deferred, builders |-> <<>>, replacements |-> <<>>,
   says |-> meant]
Touched(builders, f) == SelectInSeq(builders, LAMBDA b : b.field = f)
\* Mutant of Built: each write starts from the field again.
BuiltAfresh(builders, f, k, n) ==
  LET new == [field |-> f, value |-> PutKey(f, object.value[f], k, n)]
  IN Append(SelectSeq(builders, LAMBDA b : b.field # f), new)
Built(builders, f, k, n) ==
  LET i == Touched(builders, f)
  IN IF i = 0 THEN Append(builders, [field |-> f, value |-> PutKey(f, object.value[f], k, n)])
     ELSE [builders EXCEPT ![i].value = PutKey(f, @, k, n)]

Replaced(replacements, f, v) ==
  LET i == Touched(replacements, f)
      new == [field |-> f, value |-> v]
  IN IF i = 0 THEN Append(replacements, new) ELSE [replacements EXCEPT ![i] = new]

\* apply: the builders in the order of their creation, then the replacements; no
\* field is among both.
Pending(s) == s.builders \o s.replacements
Denied(o, s) == SelectInSeq(Pending(s), LAMBDA b : ~MayEdit(o, b.field))
Applied(o, pending) ==
  [o EXCEPT !.value = [f \in MachineFields |-> LET i == Touched(pending, f)
                                              IN IF i = 0 THEN o.value[f] ELSE pending[i].value],
            !.edited = @ \cup {pending[i].field : i \in DOMAIN pending}]

----------------------------------------------------------------------------
MachineInit ==
  /\ object = NewObject
  /\ meant = NewObject.value
  /\ recorded = NewObject.value
  /\ withBlocks = <<>> /\ written = {} /\ tangled = {}
  /\ writes = 0 /\ status = <<>>

Running == status = <<>>
Writes == Running /\ writes < MaxWrites /\ writes' = writes + 1
                  /\ ~(withBlocks # <<>> /\ Last(withBlocks).kind = "alternatives")
Sessions == {i \in DOMAIN withBlocks : withBlocks[i].kind = "session"}
\* A session that is open around an alternative keeps what the arms write in it.
InArm(i) == \E j \in DOMAIN withBlocks : j > i /\ withBlocks[j].kind = "arm"
Held(s, f) == Touched(s.builders, f) # 0 \/ Touched(s.replacements, f) # 0
Holds(i, f) == Held(withBlocks[i], f)
\* The value of f for the next write of a session.
Said(s, f) == IF Held(s, f) THEN s.says[f] ELSE meant[f]
\* A write of f that session `own`, or none (0), makes.
Tangles(own, f) ==
  IF (\E i \in Sessions \ {own} : Holds(i, f)) \/ (own # 0 /\ InArm(own)) THEN {f} ELSE {}

Raise(f) ==
  /\ status' = <<f>>
  /\ UNCHANGED <<object, withBlocks, recorded, meant, written, tangled>>
Wrote(f, own, o) ==
  /\ object' = o
  /\ recorded' = [recorded EXCEPT ![f] = o.value[f]]
  /\ written' = written \cup {f}
  /\ tangled' = tangled \cup Tangles(own, f)
  /\ UNCHANGED status

\* s.f = n
SetField(f) ==
  /\ Writes
  /\ IF MaySet(object, f)
     THEN /\ Wrote(f, 0, Set(object, f, Whole(writes')))
          /\ meant' = [meant EXCEPT ![f] = Whole(writes')]
          /\ UNCHANGED withBlocks
     ELSE Raise(f)

\* s.f[k] = n: a builder of its own, which writes at once.
SetKey(f, k) ==
  /\ Writes
  /\ IF MayEdit(object, f)
     THEN /\ Wrote(f, 0, Edit(object, f, PutKey(f, object.value[f], k, writes')))
          /\ meant' = [meant EXCEPT ![f] = PutKey(f, @, k, writes')]
          /\ UNCHANGED withBlocks
     ELSE Raise(f)

\* with s.editing(deferred=...) as u:
Editing ==
  /\ Writes
  /\ \E deferred \in BOOLEAN : withBlocks' = Append(withBlocks, NewSession(deferred))
  /\ UNCHANGED <<object, recorded, meant, written, tangled, status>>

\* u.f[k] = n in the i-th block
EditKey(i, f, k) ==
  /\ Writes
  /\ LET s == withBlocks[i]
         builders == Built(s.builders, f, k, writes')
         value == builders[Touched(builders, f)].value
     IN IF Touched(s.replacements, f) # 0 \/ (~s.deferred /\ ~MayEdit(object, f)) THEN Raise(f)
        ELSE /\ withBlocks' = [withBlocks EXCEPT ![i].builders = builders,
                                         ![i].says[f] = PutKey(f, Said(s, f), k, writes')]
             /\ IF s.deferred
                THEN /\ tangled' = tangled \cup Tangles(i, f)
                     /\ written' = written \cup {f}
                     /\ UNCHANGED <<object, recorded, meant, status>>
                ELSE /\ Wrote(f, i, Edit(object, f, value))
                     /\ meant' = [meant EXCEPT ![f] = PutKey(f, @, k, writes')]

\* u.f = n in the i-th block; a SubMachineUpdatesBuilder has no such assignment.
EditField(i, f) ==
  /\ Writes
  /\ LET s == withBlocks[i]
         new == Whole(writes')
     IN IF Touched(s.builders, f) # 0 \/ (~s.deferred /\ ~MayEdit(object, f)) THEN Raise(f)
        ELSE IF s.deferred
        THEN /\ withBlocks' = [withBlocks EXCEPT ![i].replacements = Replaced(@, f, new),
                                         ![i].says[f] = new]
             /\ tangled' = tangled \cup Tangles(i, f)
             /\ written' = written \cup {f}
             /\ UNCHANGED <<object, recorded, meant, status>>
        ELSE /\ Wrote(f, i, Edit(object, f, new))
             /\ meant' = [meant EXCEPT ![f] = new]
             /\ UNCHANGED withBlocks

\* The innermost session ends: a deferred one is applied.
EndEditing ==
  /\ Running /\ withBlocks # <<>> /\ Last(withBlocks).kind = "session"
  /\ LET s == Last(withBlocks)
         denied == Denied(object, s)  \* what is applied before it stays
     IN IF s.deferred /\ denied # 0
        THEN /\ object' = Applied(object, SubSeq(Pending(s), 1, denied - 1))
             /\ status' = <<Pending(s)[denied].field>>
             /\ UNCHANGED <<withBlocks, recorded, meant, written, tangled>>
        ELSE /\ withBlocks' = Front(withBlocks)
             /\ IF s.deferred
                THEN /\ object' = Applied(object, Pending(s))
                     /\ recorded' = [f \in MachineFields |->
                          IF Holds(Len(withBlocks), f) THEN object'.value[f] ELSE recorded[f]]
                     /\ meant' = [f \in MachineFields |-> Said(s, f)]
                ELSE UNCHANGED <<object, recorded, meant>>
             /\ UNCHANGED <<written, tangled, status>>
  /\ UNCHANGED writes

----------------------------------------------------------------------------
(* c.alternatives with two arms. *)

Snapshot == [object |-> object, meant |-> meant, written |-> written, recorded |-> recorded]
Nothing == [none |-> TRUE]
ChosenArm(i) == withBlocks[i].kind = "arm" => withBlocks[i - 1].arm = withBlocks[i - 1].chosen

\* Off the chosen path c.alternatives leaves the arm at once.
OpenAlternatives ==
  /\ Writes
  /\ \A i \in DOMAIN withBlocks : ChosenArm(i)
  /\ \E chosen \in {1, 2} :
       withBlocks' = Append(withBlocks, [kind |-> "alternatives", arm |-> 1, chosen |-> chosen,
                                 state |-> Nothing])
  /\ UNCHANGED <<object, recorded, meant, written, tangled, status>>

\* ExecAlternative.__enter__: the state is copied.
EnterArm ==
  /\ Running /\ withBlocks # <<>> /\ Last(withBlocks).kind = "alternatives"
  /\ withBlocks' = Append(withBlocks, [kind |-> "arm", saved |-> Snapshot])
  /\ UNCHANGED <<object, recorded, meant, written, tangled, writes, status>>

\* ExecAlternative.__exit__: keep a copy if the arm is chosen, go back to the saved
\* state and, behind the last arm, on with the kept one.
ExitArm ==
  /\ Running /\ withBlocks # <<>> /\ Last(withBlocks).kind = "arm"
  /\ LET saved == Last(withBlocks).saved
         outer == Front(withBlocks)
         alts == Last(outer)
         kept == IF alts.chosen = alts.arm THEN Snapshot ELSE alts.state
         next == IF alts.arm = 2 THEN kept ELSE saved
     IN /\ object' = CopyFrom(CopyFrom(object, saved.object), next.object)
        /\ meant' = next.meant
        /\ written' = next.written
        /\ recorded' = next.recorded
        /\ withBlocks' = IF alts.arm = 2 THEN Front(outer)
                     ELSE [outer EXCEPT ![Len(outer)].arm = 2, ![Len(outer)].state = kept]
  /\ UNCHANGED <<tangled, writes, status>>

\* The action returns: commit.
Commit ==
  /\ Running /\ withBlocks = <<>>
  /\ object' = Finalized(object)
  /\ meant' = object.value /\ recorded' = object.value
  /\ written' = {} /\ tangled' = {}
  /\ writes < MaxWrites /\ writes' = writes + 1
  /\ UNCHANGED <<withBlocks, status>>

MachineNext ==
  \/ \E f \in MachineFields : SetField(f)
  \/ \E f \in MachineFields, k \in ObjectKeys : SetKey(f, k)
  \/ Editing
  \/ \E i \in Sessions, f \in MachineFields, k \in ObjectKeys : EditKey(i, f, k)
  \/ \E i \in Sessions, f \in MachineFields : EditField(i, f)
  \/ EndEditing
  \/ OpenAlternatives \/ EnterArm \/ ExitArm
  \/ Commit
MachineSpec == MachineInit /\ [][MachineNext]_machineVars

----------------------------------------------------------------------------
\* The writes that an action makes, in whatever forms and blocks, are what the state
\* is in the end, and the last that __edit_callback was told: none is lost, none of
\* an arm that is not chosen stays.
WritesAreKept ==
  Running /\ withBlocks = <<>> =>
    \A f \in MachineFields \ tangled : object.value[f] = meant[f] /\ recorded[f] = meant[f]

\* A write is refused only to a field that this path of this action has written.
RefusedOnlyIfWritten == ~Running => status[1] \in written \cup tangled
=============================================================================
