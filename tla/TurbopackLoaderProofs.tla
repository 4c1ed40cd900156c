------------------------- MODULE TurbopackLoaderProofs -------------------------
(***************************************************************************)
(* Stamps suffice for a host without a watch hook: theorems about          *)
(* TurbopackLoader for every set of files, calls and edits.                *)
(***************************************************************************)
EXTENDS TurbopackLoader, TLAPS

Outputs == [seen : Sights, deps : Stamps, raced : BOOLEAN]

(* No stamp and no dependency is of a later mtime than there has been.        *)
Past(s) == \A f \in DOMAIN s : s[f] \in 0 .. edits

(* A call under way sees its own modules only, and nothing it reads is        *)
(* stamped as it was before the call.                                         *)
CallKnows(c) ==
  /\ DOMAIN call[c].seen \subseteq Reads[call[c].entry]
  /\ ~call[c].raced => \A f \in Reads[call[c].entry] \cap DOMAIN stamps : stamps[f] = mtime[f]
CallsKnow == \A c \in Running : CallKnows(c)

(* What the host holds declares all that it was made of. *)
OutputDeclares(o) == DOMAIN o.seen \subseteq DOMAIN o.deps /\ Past(o.deps)
OutputsDeclare == \A e \in Entries : output[e] # None => OutputDeclares(output[e])

LoaderInv ==
  /\ TypeOK /\ DOMAIN output = Entries /\ Past(stamps)
  /\ StaleIsDetected /\ CallsKnow /\ CallIsFresh
  /\ OutputsDeclare /\ OutputIsFresh

-----------------------------------------------------------------------------
(* Sights and stamps *)

LEMMA EmptyTable == << >> \in Sights /\ << >> \in Stamps /\ DOMAIN << >> = {}
<1>1. << >> = [f \in {} |-> None]
  OBVIOUS
<1> QED
  BY <1>1 DEF Sights, Stamps

LEMMA SightIs ==
  ASSUME NEW s \in Sights
  PROVE  DOMAIN s \subseteq Files /\ \A f \in DOMAIN s : s[f] \in Contents
BY DEF Sights

LEMMA StampIs ==
  ASSUME NEW s \in Stamps
  PROVE  DOMAIN s \subseteq Files /\ \A f \in DOMAIN s : s[f] \in 0 .. MaxEdits
BY DEF Stamps

LEMMA SightGrows ==
  ASSUME NEW s \in Sights, NEW f \in Files, NEW c \in Contents
  PROVE  LET t == Over(s, Just(f, c))
         IN /\ t \in Sights /\ DOMAIN t = DOMAIN s \cup {f}
            /\ \A g \in DOMAIN s : t[g] = s[g]
            /\ f \notin DOMAIN s => t[f] = c
<1> DEFINE t == Over(s, Just(f, c))
<1>1. DOMAIN t = DOMAIN s \cup {f} /\ \A g \in DOMAIN t : t[g] = IF g \in DOMAIN s THEN s[g] ELSE c
  BY DEF Over, Just
<1>2. t \in [DOMAIN t -> Contents]
  BY <1>1, SightIs DEF Over
<1> QED
  BY <1>1, <1>2, SightIs DEF Sights

(* A call, field by field. *)
LEMMA CallIs ==
  ASSUME TypeOK, NEW c \in Calls
  PROVE  /\ call[c] \in [entry : Entries \cup {None}, seen : Sights, raced : BOOLEAN]
         /\ call[c].seen \in Sights /\ call[c].raced \in BOOLEAN
         /\ c \in Running => call[c].entry \in Entries /\ Reads[call[c].entry] \subseteq Files
BY ReadsAssumption DEF TypeOK, Running

LEMMA IdleIs ==
  /\ IdleCall \in [entry : Entries \cup {None}, seen : Sights, raced : BOOLEAN]
  /\ IdleCall.entry = None
BY EmptyTable DEF IdleCall

LEMMA MtimeIs ==
  ASSUME TypeOK
  PROVE  /\ edits \in Nat /\ edits <= MaxEdits
         /\ \A f \in Files : mtime[f] \in 0 .. edits /\ mtime[f] \in 0 .. MaxEdits /\ content[f] \in Contents
BY BoundAssumption DEF TypeOK

-----------------------------------------------------------------------------
(* Edits *)

LEMMA EditKeeps ==
  ASSUME LoaderInv, NEW f \in Files, NEW c \in Contents, Edit(f, c)
  PROVE  LoaderInv'
<1> USE DEF LoaderInv
<1>1. /\ edits < MaxEdits /\ edits' = edits + 1
      /\ content' = [content EXCEPT ![f] = c] /\ mtime' = [mtime EXCEPT ![f] = edits + 1]
      /\ call' = [i \in Calls |-> IF i \in Running THEN Taint(i, f) ELSE call[i]]
      /\ pinned' = IF f \in DOMAIN loaded \ DOMAIN stamps THEN pinned \cup {f} ELSE pinned
      /\ UNCHANGED <<loaded, stamps, output>>
  BY DEF Edit
<1>2. /\ edits \in Nat /\ MaxEdits \in Nat
      /\ \A g \in Files : mtime'[g] = IF g = f THEN edits + 1 ELSE mtime[g]
      /\ \A g \in Files \ {f} : content'[g] = content[g]
      /\ content' \in [Files -> Contents] /\ mtime' \in [Files -> 0 .. edits']
  BY <1>1, BoundAssumption DEF TypeOK
<1>3. ASSUME NEW i \in Calls
      PROVE  /\ call'[i] \in [entry : Entries \cup {None}, seen : Sights, raced : BOOLEAN]
             /\ call'[i].entry = call[i].entry /\ call'[i].seen = call[i].seen
             /\ i \in Running /\ ~call'[i].raced => ~call[i].raced /\ f \notin Reads[call[i].entry]
  BY <1>1, CallIs DEF Taint
<1>4. Running' = Running
  BY <1>3 DEF Running
<1>5. \A s : Past(s) => Past(s)' /\ \A g \in DOMAIN s \cap Files : s[g] = mtime'[g] => g # f /\ s[g] = mtime[g]
  BY <1>1, <1>2 DEF Past
<1>6. TypeOK'
  BY <1>1, <1>2, <1>3 DEF TypeOK
<1>7. StaleIsDetected'
  <2>1. DOMAIN loaded \subseteq Files /\ DOMAIN stamps \subseteq Files
    BY SightIs, StampIs DEF TypeOK
  <2> SUFFICES ASSUME NEW g \in DOMAIN loaded \ pinned', loaded[g] # content'[g]
               PROVE  g \in DOMAIN stamps /\ stamps[g] # mtime'[g]
    BY <1>1 DEF StaleIsDetected
  <2>2. CASE g = f
    BY <1>1, <1>2, <2>1, <2>2 DEF Past
  <2>3. CASE g # f
    BY <1>1, <1>2, <2>1, <2>3 DEF StaleIsDetected
  <2> QED
    BY <2>2, <2>3
<1>8. CallsKnow' /\ CallIsFresh'
  <2>1. ASSUME NEW i \in Running
        PROVE  /\ DOMAIN call[i].seen \subseteq Reads[call[i].entry]
               /\ ~call'[i].raced =>
                    /\ \A g \in Reads[call[i].entry] \cap DOMAIN stamps : stamps[g] = mtime'[g]
                    /\ \A g \in DOMAIN call[i].seen : call[i].seen[g] = content'[g]
    <3>1. i \in Calls /\ Reads[call[i].entry] \subseteq Files
      BY CallIs DEF Running
    <3>2. CallKnows(i) /\ (~call[i].raced => \A g \in DOMAIN call[i].seen : call[i].seen[g] = content[g])
      BY DEF CallsKnow, CallIsFresh
    <3> QED
      BY <1>2, <1>3, <3>1, <3>2 DEF CallKnows
  <2> QED
    BY <1>1, <1>3, <1>4, <2>1 DEF CallsKnow, CallKnows, CallIsFresh, Running
<1>9. OutputsDeclare' /\ OutputIsFresh'
  <2>1. OutputsDeclare'
    BY <1>1, <1>5 DEF OutputsDeclare, OutputDeclares
  <2> SUFFICES ASSUME NEW e \in Entries, output[e] # None, ~output[e].raced,
                      \A g \in DOMAIN output[e].deps : mtime'[g] = output[e].deps[g],
                      NEW g \in DOMAIN output[e].seen
               PROVE  output[e].seen[g] = content'[g]
    BY <1>1, <2>1 DEF OutputIsFresh
  <2>2. DOMAIN output[e].deps \subseteq Files /\ g \in DOMAIN output[e].deps /\ Past(output[e].deps)
    BY StampIs DEF TypeOK, OutputsDeclare, OutputDeclares
  <2>3. \A h \in DOMAIN output[e].deps : h # f /\ mtime[h] = output[e].deps[h]
    BY <1>5, <2>2
  <2> QED
    BY <1>2, <2>2, <2>3 DEF OutputIsFresh
<1> QED
  BY <1>1, <1>5, <1>6, <1>7, <1>8, <1>9

-----------------------------------------------------------------------------
(* The loader *)

(* A call that starts finds no stale stamp, or no stamp at all. *)
LEMMA CallKeeps ==
  ASSUME LoaderInv, NEW c \in Calls, NEW e \in Entries, Call(c, e)
  PROVE  LoaderInv'
<1> USE DEF LoaderInv
<1> DEFINE started == [IdleCall EXCEPT !.entry = e]
<1>1. /\ c \notin Running /\ call' = [call EXCEPT ![c] = started]
      /\ UNCHANGED <<content, mtime, edits, output>>
      /\ \/ loaded' = << >> /\ stamps' = << >> /\ pinned' = {}
         \/ UNCHANGED <<loaded, stamps, pinned>> /\ \A f \in DOMAIN stamps : stamps[f] = mtime[f]
  BY DEF Call, InvalidateStaleExecutions, Stale, files
<1>2. /\ started \in [entry : Entries \cup {None}, seen : Sights, raced : BOOLEAN]
      /\ started.entry = e /\ started.seen = << >> /\ ~started.raced
  BY EmptyTable DEF IdleCall
<1> HIDE DEF started
<1>3. \A i \in Calls : call'[i] = IF i = c THEN started ELSE call[i]
  BY <1>1 DEF TypeOK
<1>4. TypeOK'
  BY <1>1, <1>2, <1>3, EmptyTable DEF TypeOK
<1>5. Running' \subseteq Running \cup {c} /\ Running' \subseteq Calls
  BY <1>3 DEF Running
<1>6. Past(stamps)' /\ StaleIsDetected' /\ OutputsDeclare' /\ OutputIsFresh'
  BY <1>1, EmptyTable DEF Past, StaleIsDetected, OutputsDeclare, OutputDeclares, OutputIsFresh
<1>7. CallsKnow' /\ CallIsFresh'
  <2>1. ASSUME NEW i \in Running'
        PROVE  /\ DOMAIN call'[i].seen \subseteq Reads[call'[i].entry]
               /\ ~call'[i].raced =>
                    /\ \A f \in Reads[call'[i].entry] \cap DOMAIN stamps' : stamps'[f] = mtime[f]
                    /\ \A f \in DOMAIN call'[i].seen : call'[i].seen[f] = content[f]
    <3>1. CASE i = c
      BY <1>1, <1>2, <1>3, <1>5, <2>1, <3>1, EmptyTable
    <3>2. CASE i # c
      <4>1. i \in Running /\ call'[i] = call[i]
        BY <1>3, <1>5, <2>1, <3>2
      <4> QED
        BY <1>1, <4>1, EmptyTable DEF CallsKnow, CallKnows, CallIsFresh
    <3> QED
      BY <3>1, <3>2
  <2> QED
    BY <1>1, <2>1 DEF CallsKnow, CallKnows, CallIsFresh
<1> QED
  BY <1>1, <1>4, <1>6, <1>7

(* A module it executes is as it is, and a cached one is too unless an edit   *)
(* came before its stamp.                                                     *)
LEMMA ExecuteKeeps ==
  ASSUME LoaderInv, NEW c \in Calls, NEW f \in Files, Execute(c, f)
  PROVE  LoaderInv'
<1> USE DEF LoaderInv
<1> DEFINE sees == IF f \in DOMAIN loaded THEN loaded[f] ELSE content[f]
           seen == Over(call[c].seen, Just(f, sees))
           late == call[c].raced \/ f \in pinned
<1>1. /\ c \in Running /\ f \in Reads[call[c].entry] \ DOMAIN call[c].seen
      /\ loaded' = Over(loaded, Just(f, sees))
      /\ call' = [call EXCEPT ![c].seen = seen, ![c].raced = late]
      /\ UNCHANGED <<content, mtime, edits, stamps, output, pinned>>
  BY DEF Execute, files
<1>2. loaded \in Sights /\ call[c].seen \in Sights /\ call[c].entry \in Entries /\ sees \in Contents
  BY <1>1, CallIs, MtimeIs, SightIs DEF TypeOK
<1>3. f \in DOMAIN loaded => sees = loaded[f]
  OBVIOUS
<1>4. f \notin DOMAIN loaded => sees = content[f]
  OBVIOUS
<1> HIDE DEF sees
<1>5. /\ loaded' \in Sights /\ DOMAIN loaded' = DOMAIN loaded \cup {f}
      /\ \A g \in DOMAIN loaded : loaded'[g] = loaded[g]
      /\ f \notin DOMAIN loaded => loaded'[f] = sees
  <2> DEFINE grown == Over(loaded, Just(f, sees))
  <2>1. /\ grown \in Sights /\ DOMAIN grown = DOMAIN loaded \cup {f}
        /\ \A g \in DOMAIN loaded : grown[g] = loaded[g]
        /\ f \notin DOMAIN loaded => grown[f] = sees
    BY <1>2, SightGrows
  <2> QED
    BY <1>1, <2>1
<1>6. /\ seen \in Sights /\ DOMAIN seen = DOMAIN call[c].seen \cup {f}
      /\ \A g \in DOMAIN call[c].seen : seen[g] = call[c].seen[g]
      /\ seen[f] = sees
  BY <1>1, <1>2, SightGrows
<1>7. late \in BOOLEAN /\ (~late => ~call[c].raced /\ f \notin pinned)
  BY <1>1, CallIs
<1> HIDE DEF seen, late
<1>8. ASSUME NEW i \in Calls
      PROVE  /\ call'[i] \in [entry : Entries \cup {None}, seen : Sights, raced : BOOLEAN]
             /\ call'[i].entry = call[i].entry
             /\ i # c => call'[i] = call[i]
             /\ i = c => call'[i].seen = seen /\ call'[i].raced = late
  <2>1. call[i] \in [entry : Entries \cup {None}, seen : Sights, raced : BOOLEAN]
    BY CallIs
  <2>2. i = c => call'[i] = [call[i] EXCEPT !.seen = seen, !.raced = late]
    BY <1>1 DEF TypeOK
  <2>3. i # c => call'[i] = call[i]
    BY <1>1 DEF TypeOK
  <2> QED
    BY <1>6, <1>7, <2>1, <2>2, <2>3
<1>9. Running' = Running
  BY <1>8 DEF Running
<1>10. call' \in [Calls -> [entry : Entries \cup {None}, seen : Sights, raced : BOOLEAN]]
  BY <1>1, <1>8 DEF TypeOK
<1>11. TypeOK'
  BY <1>1, <1>5, <1>10 DEF TypeOK
<1>12. StaleIsDetected'
  BY <1>1, <1>4, <1>5 DEF StaleIsDetected
<1>13. CallsKnow' /\ CallIsFresh'
  <2>1. ASSUME NEW i \in Running
        PROVE  /\ DOMAIN call'[i].seen \subseteq Reads[call[i].entry]
               /\ ~call'[i].raced =>
                    /\ \A g \in Reads[call[i].entry] \cap DOMAIN stamps : stamps[g] = mtime[g]
                    /\ \A g \in DOMAIN call'[i].seen : call'[i].seen[g] = content[g]
    <3>1. /\ CallKnows(i) /\ i \in Calls
          /\ ~call[i].raced => \A g \in DOMAIN call[i].seen : call[i].seen[g] = content[g]
      BY DEF CallsKnow, CallIsFresh, Running
    <3>2. CASE i # c
      BY <1>8, <3>1, <3>2 DEF CallKnows
    <3>3. CASE i = c
      <4>1. call'[i].seen = seen /\ call'[i].raced = late
        BY <1>8, <3>1, <3>3
      <4>2. ~late => sees = content[f]
        BY <1>1, <1>3, <1>4, <1>7, <3>1, <3>3 DEF CallKnows, StaleIsDetected
      <4> QED
        BY <1>1, <1>6, <1>7, <3>1, <3>3, <4>1, <4>2 DEF CallKnows
    <3> QED
      BY <3>2, <3>3
  <2>2. \A i \in Running : i \in Calls /\ call'[i].entry = call[i].entry
    BY <1>8 DEF Running
  <2>3. UNCHANGED <<content, mtime, stamps>>
    BY <1>1
  <2> QED
    BY <1>9, <2>1, <2>2, <2>3 DEF CallsKnow, CallKnows, CallIsFresh
<1>14. Past(stamps)' /\ OutputsDeclare' /\ OutputIsFresh'
  BY <1>1 DEF Past, OutputsDeclare, OutputDeclares, OutputIsFresh
<1> QED
  BY <1>1, <1>11, <1>12, <1>13, <1>14

(* What is stamped now is as it is now, or pinned, or was stamped before.     *)
LEMMA RecordKeeps ==
  ASSUME LoaderInv, RecordExecutedModules, UNCHANGED <<files, loaded, pinned>>
  PROVE  /\ stamps' \in Stamps /\ DOMAIN stamps' = DOMAIN loaded /\ Past(stamps)' /\ StaleIsDetected'
         /\ \A f \in DOMAIN stamps' : f \notin DOMAIN stamps => stamps'[f] = mtime[f]
         /\ \A f \in DOMAIN stamps : stamps'[f] = stamps[f]
<1> USE DEF LoaderInv
<1>1. DOMAIN loaded \subseteq Files /\ DOMAIN stamps \subseteq DOMAIN loaded
  BY SightIs DEF TypeOK
<1>2. /\ DOMAIN stamps' = DOMAIN loaded
      /\ \A f \in DOMAIN loaded : stamps'[f] = IF f \in DOMAIN stamps THEN stamps[f] ELSE mtime[f]
  BY <1>1 DEF RecordExecutedModules, Over
<1>3. \A f \in DOMAIN stamps' : stamps'[f] \in 0 .. edits /\ stamps'[f] \in 0 .. MaxEdits
  BY <1>1, <1>2, StampIs, MtimeIs DEF TypeOK, Past
<1>4. stamps' \in Stamps
  <2>1. stamps' = [f \in DOMAIN stamps' |-> stamps'[f]]
    BY DEF RecordExecutedModules, Over
  <2> QED
    BY <1>1, <1>2, <1>3, <2>1 DEF Stamps
<1>5. StaleIsDetected'
  BY <1>1, <1>2 DEF StaleIsDetected, files
<1>6. Past(stamps)'
  BY <1>3 DEF Past, files
<1>7. /\ \A f \in DOMAIN stamps' : f \notin DOMAIN stamps => stamps'[f] = mtime[f]
      /\ \A f \in DOMAIN stamps : stamps'[f] = stamps[f]
  BY <1>1, <1>2
<1> QED
  BY <1>2, <1>4, <1>5, <1>6, <1>7

LEMMA UnstampedKeeps ==
  ASSUME LoaderInv, UNCHANGED <<files, loaded, pinned, stamps>>
  PROVE  /\ stamps' \in Stamps /\ DOMAIN stamps' \subseteq DOMAIN loaded /\ Past(stamps)' /\ StaleIsDetected'
         /\ \A f \in DOMAIN stamps' : f \notin DOMAIN stamps => stamps'[f] = mtime[f]
         /\ \A f \in DOMAIN stamps : stamps'[f] = stamps[f]
BY DEF LoaderInv, TypeOK, Past, StaleIsDetected, files

(* A call that ends, with an answer to the host or without. *)
LEMMA EndKeeps ==
  ASSUME LoaderInv, NEW c \in Calls, c \in Running,
         call' = [call EXCEPT ![c] = IdleCall],
         UNCHANGED <<files, loaded, pinned>>,
         UNCHANGED stamps \/ RecordExecutedModules,
         \/ UNCHANGED output
         \/ \E deps \in SUBSET Files :
              /\ DOMAIN call[c].seen \subseteq deps
              /\ \E cacheable \in BOOLEAN :
                   output' = [output EXCEPT ![call[c].entry] = Held(c, deps, cacheable)]
         \/ output' = [output EXCEPT ![call[c].entry] = None]
  PROVE  LoaderInv'
<1> USE DEF LoaderInv
<1>1. /\ stamps' \in Stamps /\ DOMAIN stamps' \subseteq DOMAIN loaded /\ Past(stamps)' /\ StaleIsDetected'
      /\ \A f \in DOMAIN stamps' : f \notin DOMAIN stamps => stamps'[f] = mtime[f]
      /\ \A f \in DOMAIN stamps : stamps'[f] = stamps[f]
  BY RecordKeeps, UnstampedKeeps
<1>2. UNCHANGED <<content, mtime, edits>>
  BY DEF files
<1>3. Running' \subseteq Running /\ \A i \in Running' : i \in Calls /\ call'[i] = call[i]
  BY IdleIs DEF Running, TypeOK
<1>4. CallsKnow' /\ CallIsFresh'
  BY <1>1, <1>2, <1>3 DEF CallsKnow, CallKnows, CallIsFresh
<1>5. /\ DOMAIN output' = Entries
      /\ \A e \in Entries : output'[e] = output[e] \/
           /\ e = call[c].entry
           /\ output'[e] # None =>
                \E deps \in SUBSET Files : DOMAIN call[c].seen \subseteq deps
                                           /\ output'[e] = Held(c, deps, TRUE)
  BY DEF Held
<1>6. ASSUME NEW e \in Entries, output'[e] # None
      PROVE  /\ output'[e] \in Outputs /\ OutputDeclares(output'[e])
             /\ ~output'[e].raced /\ (\A f \in DOMAIN output'[e].deps : mtime[f] = output'[e].deps[f])
                  => \A f \in DOMAIN output'[e].seen : output'[e].seen[f] = content[f]
  <2>1. CASE output'[e] = output[e]
    BY <1>6, <2>1 DEF TypeOK, Outputs, OutputsDeclare, OutputIsFresh
  <2>2. CASE output'[e] # output[e]
    <3>1. PICK deps \in SUBSET Files : DOMAIN call[c].seen \subseteq deps /\ output'[e] = Held(c, deps, TRUE)
      BY <1>5, <1>6, <2>2
    <3>2. output'[e] = [seen |-> call[c].seen, deps |-> [f \in deps |-> mtime[f]], raced |-> call[c].raced]
      BY <3>1 DEF Held
    <3> DEFINE d == [f \in deps |-> mtime[f]]
    <3>3. d \in Stamps /\ DOMAIN d = deps /\ Past(d)
      <4>1. d \in [deps -> 0 .. MaxEdits] /\ \A f \in deps : d[f] \in 0 .. edits
        BY MtimeIs
      <4> QED
        BY <4>1 DEF Stamps, Past
    <3> HIDE DEF d
    <3>4. output'[e] \in Outputs /\ OutputDeclares(output'[e])
      <4>1. output'[e] = [seen |-> call[c].seen, deps |-> d, raced |-> call[c].raced]
        BY <3>2 DEF d
      <4>2. output'[e] \in Outputs
        BY <3>3, <4>1, CallIs DEF Outputs
      <4>3. output'[e].seen = call[c].seen /\ output'[e].deps = d
        BY <4>1
      <4>4. OutputDeclares(output'[e])
        BY <3>1, <3>3, <4>3 DEF OutputDeclares, Past
      <4> QED
        BY <4>2, <4>4
    <3>5. ~call[c].raced => \A f \in DOMAIN call[c].seen : call[c].seen[f] = content[f]
      BY DEF CallIsFresh
    <3> QED
      BY <3>2, <3>4, <3>5
  <2> QED
    BY <2>1, <2>2
<1>7. TypeOK'
  BY <1>1, <1>2, <1>6, IdleIs DEF TypeOK, Outputs
<1>8. OutputsDeclare' /\ OutputIsFresh'
  BY <1>2, <1>6 DEF OutputsDeclare, OutputDeclares, OutputIsFresh, Past
<1> QED
  BY <1>1, <1>4, <1>5, <1>7, <1>8

-----------------------------------------------------------------------------
(* The theorems *)

LEMMA InitInv == Init => LoaderInv
BY BoundAssumption, EmptyTable, IdleIs
   DEF Init, LoaderInv, TypeOK, Past, StaleIsDetected, CallsKnow, CallIsFresh, OutputsDeclare,
       OutputIsFresh, Running

LEMMA NextKeeps == LoaderInv /\ [Next]_vars => LoaderInv'
<1> SUFFICES ASSUME LoaderInv, [Next]_vars PROVE LoaderInv'
  OBVIOUS
<1>1. ASSUME NEW f \in Files, NEW c \in Contents, Edit(f, c) PROVE LoaderInv'
  BY <1>1, EditKeeps
<1>2. ASSUME NEW c \in Calls, NEW e \in Entries, Call(c, e) PROVE LoaderInv'
  BY <1>2, CallKeeps
<1>3. ASSUME NEW c \in Calls, NEW f \in Files, Execute(c, f) PROVE LoaderInv'
  BY <1>3, ExecuteKeeps
<1>4. ASSUME NEW c \in Running
      PROVE  /\ c \in Calls /\ call[c].entry \in Files /\ Declared(call[c].entry) \in SUBSET Files
             /\ DOMAIN call[c].seen \subseteq Reads[call[c].entry]
  BY CallIs, FilesAssumption DEF LoaderInv, CallsKnow, CallKnows, Declared, Running
<1>5. ASSUME NEW c \in Calls, FinishPlain(c) PROVE LoaderInv'
  <2>1. {call[c].entry} \in SUBSET Files /\ DOMAIN call[c].seen \subseteq {call[c].entry}
    BY <1>4, <1>5 DEF FinishPlain
  <2> QED
    BY <1>5, <2>1, EndKeeps DEF FinishPlain, Answer
<1>6. ASSUME NEW c \in Calls, NEW cacheable \in BOOLEAN, c \in Running, RecordExecutedModules,
             cacheable => call[c].entry \in Complete,
             Answer(c, Declared(call[c].entry), cacheable)
      PROVE  LoaderInv'
  <2>1. CASE cacheable
    <3>1. DOMAIN call[c].seen \subseteq Declared(call[c].entry)
      BY <1>4, <1>6, <2>1 DEF Declared
    <3> QED
      BY <1>4, <1>6, <3>1, EndKeeps DEF Answer
  <2>2. CASE ~cacheable
    BY <1>6, <2>2, EndKeeps DEF Answer, Held
  <2> QED
    BY <2>1, <2>2
<1>7. ASSUME NEW c \in Calls, Finish(c) PROVE LoaderInv'
  <2>1. CASE call[c].entry \in Complete
    BY <1>6, <1>7, <2>1 DEF Finish, Answer, Held
  <2>2. CASE call[c].entry \notin Complete
    BY <1>6, <1>7, <2>2 DEF Finish, Answer, Held
  <2> QED
    BY <2>1, <2>2
<1>8. ASSUME NEW c \in Calls, NEW exits \in BOOLEAN, Skip(c, exits) PROVE LoaderInv'
  <2>1. CASE call[c].entry \in Complete /\ ~exits
    BY <1>6, <1>8, <2>1 DEF Skip, Answer, Held
  <2>2. CASE ~(call[c].entry \in Complete /\ ~exits)
    BY <1>6, <1>8, <2>2 DEF Skip, Answer, Held
  <2> QED
    BY <2>1, <2>2
<1>9. ASSUME NEW c \in Calls, Fail(c) PROVE LoaderInv'
  BY <1>9, EndKeeps DEF Fail
<1>10. CASE UNCHANGED vars
  BY <1>10 DEF vars, files, LoaderInv, TypeOK, Past, StaleIsDetected, CallsKnow, CallKnows, CallIsFresh,
               OutputsDeclare, OutputDeclares, OutputIsFresh, Running
<1> QED
  BY <1>1, <1>2, <1>3, <1>5, <1>7, <1>8, <1>9, <1>10 DEF Next

LEMMA InvHolds == Spec => []LoaderInv
BY InitInv, NextKeeps, PTL DEF Spec

(* The loader's cache, stamps, calls and outputs have the shape they are read *)
(* with, and only what is cached is stamped.                                  *)
THEOREM HostTypeCorrect == Spec => []TypeOK
<1>1. LoaderInv => TypeOK
  BY DEF LoaderInv
<1> QED
  BY <1>1, InvHolds, PTL

(* invalidateStaleExecutions() finds every cached module that is out of date, *)
(* unless it was edited before recordExecutedModules() could stamp it.        *)
THEOREM StampsCorrect == Spec => []StaleIsDetected
<1>1. LoaderInv => StaleIsDetected
  BY DEF LoaderInv
<1> QED
  BY <1>1, InvHolds, PTL

(* A loader call during which no file it reads is edited sees every file as   *)
(* it is, however many calls share the module cache.                          *)
THEOREM CallCorrect == Spec => []CallIsFresh
<1>1. LoaderInv => CallIsFresh
  BY DEF LoaderInv
<1> QED
  BY <1>1, InvHolds, PTL

(* declareDependencies() tells the host enough: an output it may keep and     *)
(* whose declared files are unchanged is what the loader would make now.      *)
THEOREM OutputCorrect == Spec => []OutputIsFresh
<1>1. LoaderInv => OutputIsFresh
  BY DEF LoaderInv
<1> QED
  BY <1>1, InvHolds, PTL

================================================================================
