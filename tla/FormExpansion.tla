--------------------------- MODULE FormExpansion ---------------------------
(***************************************************************************)
(* The inventory of one page with the forms it invokes expanded in place:   *)
(* the call machine of presslint-paint (call_machine.rs), the resolver and  *)
(* the adapter that drive it (form_expansion_machine.rs of presslint) and   *)
(* the entries that presslint-inventory makes of a stream.                  *)
(*                                                                         *)
(* A stream is interpreted twice.  One walk makes its template, the list of *)
(* entries it would have alone; the machine walks it again, call by call,   *)
(* and at each operator takes the next entry of the template that names the *)
(* same record.  The template of a form is made at each of its calls, from  *)
(* the state of the walk that calls it.                                     *)
(*                                                                         *)
(* doc.programs[f] is [ops, spaces, images, forms, content, lost]: records, *)
(* the colour spaces its resources name, the names of images, the forms its *)
(* names call, whether its bytes can be read, and whether some XObject of   *)
(* its resources could not be classified.  Program 0 is the page, the       *)
(* others are form objects; a name in images and in forms is a duplicate    *)
(* key.  Fonts and graphics states do not show in an entry and are left out.*)
(***************************************************************************)
EXTENDS Naturals, Sequences, SequencesExt, FiniteSets

CONSTANTS
    Documents,
    MaxDepth,       \* 8: descents from the page
    MaxExpansions   \* 256: attempts to expand a form, for one page

ASSUME ExpansionAssumption ==
    /\ MaxDepth \in Nat
    /\ MaxExpansions \in Nat

VARIABLES
    doc,
    phase,        \* "opening", "walking", "done" or "skipped"
    stack,        \* the machine's frames: program, records walked, walk, next ordinal
    path,         \* the machine's invocation path: frames of ordinal and name
    active,       \* the resolver's descents: path and form
    remaining,    \* expansions left
    prepared,     \* the templates made, each with its path
    cursors,      \* how much of each template has been taken, by path
    nextSequence,
    entries,      \* the inventory
    skipped       \* reports of calls that were not expanded

vars == <<doc, phase, stack, path, active, remaining, prepared, cursors, nextSequence,
          entries, skipped>>

Page == 0
Program(f) == doc.programs[f]

(* Each program is walked in its own resource environment. *)
Walker(p) == INSTANCE PaintWalker WITH PaintSpace <- p.spaces, FontOf <- <<>>, ExtGStateFont <- <<>>

StartOf(gs) == [gs |-> gs, stack |-> <<>>]
PageDefault == Walker(Program(Page))!PageDefault

-----------------------------------------------------------------------------
(* Entries.                                                                 *)

EntryKind(p, o) ==
    CASE o.kind = "paint" /\ o.lanes # {} -> "Vector"
      [] o.kind = "show" -> "Text"
      [] o.kind = "Do" /\ o.name \in p.images -> "Image"
      [] o.kind = "Do" /\ o.name \in DOMAIN p.forms \ p.images -> "Form"
      [] OTHER -> "none"

IsFormCall(p, o) == EntryKind(p, o) = "Form"

(* Only modes 0 to 2 are known to show text in a colour. *)
LanesOfMode(mode) ==
    (IF mode \in {0, 2} THEN {"fill"} ELSE {}) \union
    (IF mode \in {1, 2} THEN {"stroke"} ELSE {})

ShownLanes(kind, o, gs) ==
    CASE kind = "Vector" -> o.lanes
      [] kind = "Text" -> LanesOfMode(gs.mode)
      [] OTHER -> {}

(* Mutant: only a colour the page started with is taken for inherited. *)
WithheldFromPageDefault(lanes, gs, seed) ==
    \E lane \in lanes : gs[lane].source # 0 /\ gs[lane] = PageDefault[lane]

(* A colour with a source that is still the one the walk started from was   *)
(* set by another stream.                                                   *)
Withheld(lanes, gs, seed) ==
    \E lane \in lanes : gs[lane].source # 0 /\ gs[lane] = seed[lane]

TemplateEntry(kind, lanes, gs, seed, at, sequence) ==
    [at |-> at, kind |-> kind, sequence |-> sequence, path |-> <<>>,
     colors |-> [lane \in lanes |-> gs[lane]],
     rewrite |-> lanes # {} /\ ~Withheld(lanes, gs, seed)]

(* One walk of a whole stream; a record that cannot be walked fails it. *)
Template(p, seed) ==
    FoldLeft(
        LAMBDA t, at :
            LET o == p.ops[at]
                walk == Walker(p)!Walked(t.walk, o, at)
                kind == EntryKind(p, o)
            IN  IF t.failed \/ Walker(p)!WalkFails(t.walk, o) THEN [t EXCEPT !.failed = TRUE]
                ELSE [t EXCEPT !.walk = walk,
                        !.entries = IF kind = "none" THEN @
                                    ELSE Append(@, TemplateEntry(kind, ShownLanes(kind, o, walk.gs),
                                                                 walk.gs, seed, at, Len(@)))],
        [walk |-> StartOf(seed), entries |-> <<>>, failed |-> FALSE],
        [at \in DOMAIN p.ops |-> at])

-----------------------------------------------------------------------------
(* One turn of the machine.                                                 *)

Init ==
    /\ doc \in Documents
    /\ phase = "opening"
    /\ stack = <<>> /\ path = <<>> /\ active = <<>> /\ prepared = <<>>
    /\ cursors = <<>> /\ entries = <<>> /\ skipped = <<>>
    /\ remaining = MaxExpansions
    /\ nextSequence = 0

Frame(program, gs) == [program |-> program, at |-> 0, walk |-> StartOf(gs), ordinal |-> 0]

Top == Last(stack)
Record == Program(Top.program).ops[Top.at + 1]
WalkAfter == Walker(Program(Top.program))!Walked(Top.walk, Record, Top.at + 1)
Called == Program(Top.program).forms[Record.name]
CalledPath == Append(path, [ordinal |-> Top.ordinal, name |-> Record.name])

(* A page that cannot be read or walked is skipped; one without forms is    *)
(* done.                                                                    *)
OpenPage ==
    LET p == Program(Page)
        template == Template(p, PageDefault)
        failed == ~p.content \/ template.failed
    IN  /\ phase = "opening"
        /\ phase' = CASE failed -> "skipped"
                      [] ~failed /\ DOMAIN p.forms = {} -> "done"
                      [] OTHER -> "walking"
        /\ entries' = IF phase' = "done" THEN template.entries ELSE <<>>
        /\ prepared' = <<[path |-> <<>>, entries |-> template.entries]>>
        /\ nextSequence' = Len(template.entries)
        /\ stack' = <<Frame(Page, PageDefault)>>
        /\ UNCHANGED <<doc, path, active, remaining, cursors, skipped>>

(* An entry of the page is taken as it is, an entry of a form gets the next *)
(* number of the page and the path it was met on.                           *)
Accepted(template) ==
    IF path = <<>> THEN template
    ELSE [template EXCEPT !.path = path, !.sequence = nextSequence]

(* The adapter takes the next entry of the stream's template when it names  *)
(* the record just walked.                                                  *)
Accept ==
    LET template == SelectInSeq(prepared, LAMBDA t : t.path = path)
        list == prepared[template].entries
        taken == IF path \in DOMAIN cursors THEN cursors[path] ELSE 0
        fits == taken < Len(list) /\ list[taken + 1].at = Top.at + 1
    IN  /\ entries' = IF fits THEN Append(entries, Accepted(list[taken + 1])) ELSE entries
        /\ cursors' = IF fits THEN (path :> taken + 1) @@ cursors ELSE cursors
        /\ nextSequence' = IF fits /\ path # <<>> THEN nextSequence + 1 ELSE nextSequence

Walking == phase = "walking" /\ stack # <<>> /\ Top.at < Len(Program(Top.program).ops)

Advanced(ordinal) ==
    [stack EXCEPT ![Len(stack)] = [@ EXCEPT !.at = @ + 1, !.walk = WalkAfter, !.ordinal = ordinal]]

(* A record that cannot be walked ends the page, whichever program it is in.*)
WalkRecord ==
    /\ Walking
    /\ ~IsFormCall(Program(Top.program), Record)
    /\ IF Walker(Program(Top.program))!WalkFails(Top.walk, Record)
       THEN /\ phase' = "skipped"
            /\ stack' = <<>> /\ path' = <<>> /\ active' = <<>>
            /\ UNCHANGED <<cursors, nextSequence, entries>>
       ELSE /\ Accept
            /\ stack' = Advanced(Top.ordinal)
            /\ UNCHANGED <<phase, path, active>>
    /\ UNCHANGED <<doc, remaining, prepared, skipped>>

(* Mutant: the end of a form is not reported to the resolver. *)
ReturnUnnoticed ==
    /\ phase = "walking"
    /\ stack # <<>> /\ Top.at = Len(Program(Top.program).ops)
    /\ stack' = Front(stack)
    /\ path' = IF path = <<>> THEN path ELSE Front(path)
    /\ UNCHANGED <<doc, phase, active, remaining, prepared, cursors, nextSequence, entries, skipped>>

(* The end of a program; leaving a form takes it off the active descents.   *)
Return ==
    /\ phase = "walking"
    /\ stack # <<>> /\ Top.at = Len(Program(Top.program).ops)
    /\ stack' = Front(stack)
    /\ active' = IF path = <<>> THEN active
                 ELSE RemoveAt(active, SelectLastInSeq(active, LAMBDA a : a.path = path))
    /\ path' = IF path = <<>> THEN path ELSE Front(path)
    /\ UNCHANGED <<doc, phase, remaining, prepared, cursors, nextSequence, entries, skipped>>

Finish ==
    /\ phase = "walking"
    /\ stack = <<>>
    /\ phase' = "done"
    /\ UNCHANGED <<doc, stack, path, active, remaining, prepared, cursors, nextSequence,
                   entries, skipped>>

-----------------------------------------------------------------------------
(* resolve_form: the call itself is walked and taken like any record, then  *)
(* the form is entered or a reason not to is reported.  The path in a       *)
(* report is the model's, to say which call it answers.                     *)

IsCall == Walking /\ IsFormCall(Program(Top.program), Record)
Cyclic == \E k \in DOMAIN active : active[k].form = Called
Skip(reason) == [path |-> CalledPath, form |-> Called, reason |-> reason]

(* Every call of a form counts, entered or not. *)
NextOrdinal == Top.ordinal + 1

SkipCall(reason) ==
    /\ Accept
    /\ stack' = Advanced(NextOrdinal)
    /\ skipped' = Append(skipped, Skip(reason))
    /\ UNCHANGED <<doc, phase, path, active, prepared>>

RefuseCycle ==
    /\ IsCall
    /\ Cyclic
    /\ SkipCall("Cycle")
    /\ UNCHANGED remaining

RefuseDepth ==
    /\ IsCall
    /\ ~Cyclic
    /\ Len(active) >= MaxDepth
    /\ SkipCall("MaxDepth")
    /\ UNCHANGED remaining

RefuseBudget ==
    /\ IsCall
    /\ ~Cyclic /\ Len(active) < MaxDepth
    /\ remaining = 0
    /\ SkipCall("BudgetExhausted")
    /\ UNCHANGED remaining

Attempted == IsCall /\ ~Cyclic /\ Len(active) < MaxDepth /\ remaining > 0

(* A form whose bytes cannot be read has cost an expansion all the same. *)
RefuseContent ==
    /\ Attempted
    /\ ~Program(Called).content
    /\ SkipCall("Content")
    /\ remaining' = remaining - 1

ResourceSkips == IF Program(Called).lost THEN <<Skip("Resource")>> ELSE <<>>

(* Mutant: a form is walked from the state a page starts with. *)
CalleeFromPageDefault == Frame(Called, PageDefault)

(* The callee starts from the caller's state with nothing saved. *)
Callee == Frame(Called, WalkAfter.gs)

(* A form that cannot be walked has no template and is not entered. *)
RefuseWalk ==
    /\ Attempted
    /\ Program(Called).content
    /\ Template(Program(Called), WalkAfter.gs).failed
    /\ Accept
    /\ stack' = Advanced(NextOrdinal)
    /\ skipped' = skipped \o ResourceSkips \o <<Skip("Content")>>
    /\ remaining' = remaining - 1
    /\ UNCHANGED <<doc, phase, path, active, prepared>>

Descend ==
    LET template == Template(Program(Called), WalkAfter.gs)
    IN  /\ Attempted
        /\ Program(Called).content
        /\ ~template.failed
        /\ Accept
        /\ stack' = Append(Advanced(NextOrdinal), Callee)
        /\ path' = CalledPath
        /\ active' = Append(active, [path |-> CalledPath, form |-> Called])
        /\ prepared' = Append(prepared, [path |-> CalledPath, entries |-> template.entries])
        /\ skipped' = skipped \o ResourceSkips
        /\ remaining' = remaining - 1
        /\ UNCHANGED <<doc, phase>>

Next ==
    \/ OpenPage
    \/ WalkRecord
    \/ Return
    \/ Finish
    \/ RefuseCycle
    \/ RefuseDepth
    \/ RefuseBudget
    \/ RefuseContent
    \/ RefuseWalk
    \/ Descend

Spec == Init /\ [][Next]_vars

-----------------------------------------------------------------------------
(* What a page paints, said without a machine: the programs a path leads    *)
(* through, the record each of its frames stands for, and the state there.  *)

FormCalls(p) == SelectSeq([k \in DOMAIN p.ops |-> k], LAMBDA k : IsFormCall(p, p.ops[k]))

ProgramsOn(way) ==
    LET f[n \in 0..Len(way)] == IF n = 0 THEN Page ELSE Program(f[n - 1]).forms[way[n].name]
    IN  f

CallRecord(p, frame) == FormCalls(p)[frame.ordinal + 1]

(* Colours set by program f at record k have the source 100 * f + k here,   *)
(* so that the stream a colour comes from can be told.                      *)
StateAfter(f, k, seed) ==
    FoldLeft(LAMBDA w, at : Walker(Program(f))!Walked(w, Program(f).ops[at], 100 * f + at),
             StartOf(seed), [at \in 1..k |-> at]).gs

SeedOf(way) ==
    LET on == ProgramsOn(way)
        seed[n \in 0..Len(way)] ==
            IF n = 0 THEN PageDefault
            ELSE StateAfter(on[n - 1], CallRecord(Program(on[n - 1]), way[n]), seed[n - 1])
    IN  seed[Len(way)]

ProgramOf(way) == ProgramsOn(way)[Len(way)]

TrueColors(e) ==
    LET gs == StateAfter(ProgramOf(e.path), e.at, SeedOf(e.path))
    IN  [lane \in ShownLanes(e.kind, Program(ProgramOf(e.path)).ops[e.at], gs) |-> gs[lane]]

(* Every record can be read and no Q lacks its q. *)
Walkable(f) ==
    LET ops == Program(f).ops
        met(kind, k) == Cardinality({j \in 1..k : ops[j].kind = kind})
    IN  \A k \in DOMAIN ops : ops[k].kind # "malformed" /\ met("Q", k) <= met("q", k)

Expanded == {prepared[k].path : k \in DOMAIN prepared}

(* The records of a program that show something. *)
Shown(f) == SelectSeq([k \in DOMAIN Program(f).ops |-> k],
                      LAMBDA k : EntryKind(Program(f), Program(f).ops[k]) # "none")

(* Where an entry stands: the calls that lead to it, then its own record.   *)
Position(e) ==
    [n \in 1..(Len(e.path) + 1) |->
        IF n = Len(e.path) + 1 THEN e.at
        ELSE CallRecord(Program(ProgramsOn(e.path)[n - 1]), e.path[n])]

Earlier(a, b) ==
    \/ IsStrictPrefix(a, b)
    \/ \E n \in 1..Len(a) :
          n <= Len(b) /\ a[n] < b[n] /\ \A j \in 1..(n - 1) : a[j] = b[j]

(* The inventory is the page as it is painted: every stream that is entered *)
(* gives all it shows, in the colours in force where it was called, and the *)
(* entries stand in the order of painting, a form's right after its call.   *)
(* Expansion leaves the page's own entries as they are without it, numbers  *)
(* included, and numbers the others after them.                             *)
ExpandedAsPainted ==
    phase = "done" =>
        /\ \A way \in Expanded :
              LET own == SelectSeq(entries, LAMBDA e : e.path = way)
              IN  [k \in DOMAIN own |-> own[k].at] = Shown(ProgramOf(way))
        /\ \A k \in DOMAIN entries :
              LET colors == TrueColors(entries[k])
              IN  entries[k].colors = [lane \in DOMAIN colors |-> [colors[lane] EXCEPT !.source = @ % 100]]
        /\ \A k \in 2..Len(entries) : Earlier(Position(entries[k - 1]), Position(entries[k]))
        /\ LET own == Template(Program(Page), PageDefault).entries
               others == SelectSeq(entries, LAMBDA e : e.path # <<>>)
           IN  /\ SelectSeq(entries, LAMBDA e : e.path = <<>>) = own
               /\ \A k \in DOMAIN others : others[k].sequence = Len(own) + k - 1

(* A colour operand may be rewritten only when the stream the entry stands  *)
(* in has set it: the source of a colour is a place in some stream, and the *)
(* entry names one stream only.                                             *)
RewriteIsLocal ==
    phase = "done" =>
        \A k \in DOMAIN entries :
            entries[k].rewrite =>
                \A lane \in DOMAIN entries[k].colors :
                    LET source == TrueColors(entries[k])[lane].source
                    IN  source = 0 \/ source \div 100 = ProgramOf(entries[k].path)

(* Every call of a form in a stream that was entered is answered once: it   *)
(* is entered, or one report says why not, and the report is true of the    *)
(* call: the form is being walked already, the call is at the depth bound,  *)
(* the expansions of the page are spent, or the form is unreadable.  A form *)
(* costs its own entries and no more: a page is skipped only when its own   *)
(* stream cannot be read or walked.                                         *)
ReportIsTrue(report) ==
    LET call == report.path
        form == ProgramOf(call)
    IN  CASE report.reason = "Cycle" -> \E n \in 1..(Len(call) - 1) : ProgramsOn(call)[n] = form
          [] report.reason = "MaxDepth" -> Len(call) > MaxDepth
          [] report.reason = "BudgetExhausted" ->
                Len(prepared) - 1 + Cardinality({k \in DOMAIN skipped : skipped[k].reason = "Content"})
                    = MaxExpansions
          [] report.reason = "Content" -> ~Program(form).content \/ ~Walkable(form)
          [] report.reason = "Resource" -> Program(form).lost

Answers(call) ==
    Cardinality({k \in DOMAIN prepared : prepared[k].path = call})
      + Cardinality({k \in DOMAIN skipped : skipped[k].path = call /\ skipped[k].reason # "Resource"})

EveryCallAnswered ==
    /\ phase = "done" =>
          /\ \A way \in Expanded :
                LET p == Program(ProgramOf(way))
                IN  \A n \in DOMAIN FormCalls(p) :
                       Answers(Append(way, [ordinal |-> n - 1, name |-> p.ops[FormCalls(p)[n]].name])) = 1
          /\ \A k \in DOMAIN skipped : ReportIsTrue(skipped[k])
    /\ phase = "skipped" => ~Program(Page).content \/ ~Walkable(Page)
=============================================================================
