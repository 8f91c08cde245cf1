--------------------------- MODULE Analysis_proofs ---------------------------
(***************************************************************************)
(* The analysis of a file, by the session that starts it and by its passes. *)
(*                                                                         *)
(* What holds of every session, for any files and any number of loads and  *)
(* comparisons.  All the safety rests on one fact about busy_: between     *)
(* open_file and the handoff, exactly one of "a thread works on analyzer_" *)
(* and "analysis_done_ is set" is true, and the panels show nothing, or the *)
(* database of analyzer_ after a rebase that did not wait for the handoff.  *)
(*                                                                         *)
(* What the passes leave behind, for every finite program: the three tables *)
(* of references agree, every cycle of a function has a recorded edge, every *)
(* word of a data section is listed, and an indirect target that is found in *)
(* a block is the one its register leads to.                               *)
(***************************************************************************)
EXTENDS Session, AnalysisPasses, FiniteSetTheorems, SequenceTheorems, TLAPS


Analysing == {"analyse", "report"}
Comparing == {"diffStart", "diffRun", "diffCompare"}

(* The detached threads that analyse.                                      *)
Threads ==
  /\ \A o \in Object : at[o] # "none" => o \in Loaded
  /\ \A o \in Object : at[o] \in Analysing =>
       anl = o /\ on[o] = o /\ busy /\ ~ready /\ o \notin handed
  /\ \A o \in Object : at[o] = "report" => o \in finished
  /\ busy => anl # None /\ (ready \/ at[anl] \in Analysing)

(* The flags and what the panels may draw.                                 *)
Handoff ==
  /\ ready => busy /\ anl \in finished /\ anl \notin handed
  /\ busy => anl # None /\ panels \in {None, anl} /\ side = None /\ ~astray
  /\ anl # None => img = anl /\ (astray \/ origin[anl] = path)
  /\ panels # None => panels = img /\ panels \in finished \union spoiled
  /\ side # None => side = img /\ side \in finished
  /\ ~busy /\ anl # None =>
       /\ anl \in finished /\ late = anl
       /\ panels = anl \/ (astray /\ panels = None)
       /\ side = anl \/ (astray /\ side = None)
  /\ img # None /\ anl = None => side = None /\ (panels = img \/ (astray /\ panels = None))

(* The detached threads that compare.                                      *)
Comparisons ==
  /\ \A o \in Object : at[o] = "diffStart" => diffAnl # None
  /\ \A o \in Object : at[o] = "diffRun" => on[o] # None
  /\ \A o \in apart : at[o] \in Comparing =>
       /\ diffAnl = o /\ anl # None /\ anl \in finished /\ ~busy
       /\ at[o] # "diffStart" => on[o] = o
       /\ at[o] = "diffCompare" => o \in finished

IInv == TypeOK /\ Threads /\ Handoff /\ Comparisons

LEMMA NoneIsNoObject == None \notin Object /\ Object \subseteq Nat
BY SessionAssumption DEF Object

LEMMA LoadedObjects ==
  ASSUME TypeOK
  PROVE  /\ Loaded \subseteq Object /\ None \notin Loaded
         /\ Fresh \in Nat /\ Fresh \notin Loaded
         /\ Loaded = 1..Len(origin)
BY SessionAssumption DEF TypeOK, Loaded, Object, Fresh

(* A load adds one object to those that were there.                        *)
LEMMA LoadAdds ==
  ASSUME TypeOK, NEW f \in File, Fresh \in Object, origin' = Append(origin, f)
  PROVE  /\ origin' \in Seq(File) /\ Len(origin') <= MaxObjects
         /\ DOMAIN origin' = Loaded \union {Fresh}
         /\ origin'[Fresh] = f
         /\ \A o \in Loaded : origin'[o] = origin[o]
BY SessionAssumption DEF TypeOK, Loaded, Object, Fresh

LEMMA Initially == SessionInit => IInv
<1> SUFFICES ASSUME SessionInit PROVE IInv  OBVIOUS
<1>1. TypeOK
  <2>1. origin \in Seq(File) /\ Len(origin) <= MaxObjects
    BY SessionAssumption DEF SessionInit
  <2>2. /\ at \in [Object -> Stage] /\ on \in [Object -> Maybe(Loaded)]
        /\ saved \in [File -> Maybe(Loaded)]
    BY DEF SessionInit, Stage, Maybe
  <2>3. compared \in Maybe(Loaded) \X Maybe(Loaded)
    BY DEF SessionInit, Maybe
  <2> QED  BY <2>1, <2>2, <2>3 DEF SessionInit, TypeOK, Maybe
<1>2. Threads /\ Handoff /\ Comparisons
  BY DEF SessionInit, Threads, Handoff, Comparisons, Analysing, Comparing
<1> QED  BY <1>1, <1>2 DEF IInv

(* open_file, in a window or for McpServer.                                *)
LEMMA LoadStep ==
  ASSUME IInv, NEW f \in File, OpenFile(f), UNCHANGED answer \/ mode = "mcp"
  PROVE  IInv'
<1>1. CASE LoadBroken(f)
  <2>1. TypeOK'
    BY <1>1 DEF IInv, TypeOK, OpenFile, Load, LoadBroken, Maybe, Loaded, flags, tasks
  <2>2. Threads'
    BY <1>1 DEF IInv, Threads, OpenFile, Load, LoadBroken, Loaded, flags, tasks, Analysing
  <2>3. Handoff'
    BY <1>1 DEF IInv, Handoff, OpenFile, Load, LoadBroken, flags, tasks
  <2>4. Comparisons'
    BY <1>1 DEF IInv, Comparisons, OpenFile, Load, LoadBroken, flags, tasks, Comparing
  <2> QED  BY <2>1, <2>2, <2>3, <2>4 DEF IInv
<1>2. CASE LoadDotNet(f)
  <2>0. /\ Fresh \in Object /\ Fresh \notin Loaded /\ None \notin Loaded /\ Fresh # None
        /\ origin' \in Seq(File) /\ Len(origin') <= MaxObjects
        /\ Loaded' = Loaded \union {Fresh}
    BY <1>2, LoadedObjects, LoadAdds, NoneIsNoObject
    DEF IInv, OpenFile, Load, LoadDotNet, Loaded
  <2>1. TypeOK'
    BY <1>2, <2>0 DEF IInv, TypeOK, OpenFile, Load, LoadDotNet, Maybe, tasks
  <2>2. Threads'
    BY <1>2, <2>0 DEF IInv, Threads, OpenFile, Load, LoadDotNet, tasks, Analysing
  <2>3. Handoff'
    BY <1>2, <2>0 DEF IInv, Handoff, OpenFile, Load, LoadDotNet, tasks
  <2>4. Comparisons'
    BY <1>2, <2>0 DEF IInv, Comparisons, OpenFile, Load, LoadDotNet, tasks, Comparing
  <2> QED  BY <2>1, <2>2, <2>3, <2>4 DEF IInv
<1>3. CASE LoadNative(f)
  <2>0. /\ Fresh \in Object /\ Fresh \notin Loaded /\ None \notin Loaded /\ Fresh # None
        /\ origin' \in Seq(File) /\ Len(origin') <= MaxObjects
        /\ Loaded' = Loaded \union {Fresh} /\ origin'[Fresh] = f
    BY <1>3, LoadedObjects, LoadAdds, NoneIsNoObject
    DEF IInv, OpenFile, Load, LoadNative, Loaded
  <2>1. TypeOK'
    BY <1>3, <2>0 DEF IInv, TypeOK, OpenFile, Load, LoadNative, Maybe, Stage
  <2>2. Threads'
    <3>1. \A o \in Object : at[o] \notin Analysing
      BY DEF IInv, Threads, OpenFile
    <3>2. Fresh \notin handed  BY <2>0 DEF IInv, TypeOK
    <3> QED
      BY <1>3, <2>0, <3>1, <3>2
      DEF IInv, TypeOK, Threads, OpenFile, Load, LoadNative, Analysing
  <2>3. Handoff'
    BY <1>3, <2>0 DEF IInv, Handoff, OpenFile, Load, LoadNative
  <2>4. Comparisons'
    BY <1>3, <2>0 DEF IInv, TypeOK, Comparisons, OpenFile, Load, LoadNative, Comparing
  <2> QED  BY <2>1, <2>2, <2>3, <2>4 DEF IInv
<1> QED  BY <1>1, <1>2, <1>3 DEF OpenFile, Load

LEMMA AnalysisStep ==
  ASSUME IInv, NEW o \in Object, Analysis(o)
  PROVE  IInv'
<1>0. o \in Loaded /\ at[o] \in Analysing
  BY DEF IInv, Threads, Analysis, Analyse, Report, Analysing
<1>1. CASE Analyse(o)
  <2>0. on[o] = o /\ finished' = finished \union {o}
    BY <1>0, <1>1 DEF IInv, Threads, Analyse
  <2>1. TypeOK'
    BY <1>0, <1>1, <2>0
    DEF IInv, TypeOK, Analyse, Maybe, Stage, Loaded, flags, views
  <2>2. Threads'
    BY <1>0, <1>1, <2>0
    DEF IInv, TypeOK, Threads, Analyse, Analysing, Loaded, flags, views
  <2>3. Handoff'
    BY <1>1, <2>0 DEF IInv, Handoff, Analyse, flags, views
  <2>4. Comparisons'
    BY <1>1, <2>0 DEF IInv, TypeOK, Comparisons, Analyse, Comparing, flags, views
  <2> QED  BY <2>1, <2>2, <2>3, <2>4 DEF IInv
<1>2. CASE Report(o)
  <2>1. TypeOK'
    BY <1>2 DEF IInv, TypeOK, Report, Maybe, Stage, Loaded, views, past
  <2>2. Threads'
    BY <1>0, <1>2
    DEF IInv, TypeOK, Threads, Report, Analysing, Loaded, views, past
  <2>3. Handoff'
    BY <1>0, <1>2 DEF IInv, Threads, Handoff, Report, Analysing, views, past
  <2>4. Comparisons'
    BY <1>2 DEF IInv, TypeOK, Comparisons, Report, Comparing, views, past
  <2> QED  BY <2>1, <2>2, <2>3, <2>4 DEF IInv
<1> QED  BY <1>1, <1>2 DEF Analysis

LEMMA PickupStep ==
  ASSUME IInv, Pickup  PROVE IInv'
<1>0. busy /\ anl \in finished /\ anl # None /\ anl \in Loaded
  BY DEF IInv, TypeOK, Handoff, Pickup
<1>1. TypeOK'
  BY <1>0 DEF IInv, TypeOK, Pickup, Maybe, Stage, Loaded, tasks
<1>2. Threads'
  BY <1>0 DEF IInv, Threads, Pickup, Analysing, Loaded, tasks
<1>3. Handoff'
  BY <1>0 DEF IInv, Handoff, Pickup, tasks
<1>4. Comparisons'
  BY <1>0 DEF IInv, Comparisons, Pickup, Comparing, tasks
<1> QED  BY <1>1, <1>2, <1>3, <1>4 DEF IInv

LEMMA RebaseStep ==
  ASSUME IInv, Rebase  PROVE IInv'
<1>0. anl # None /\ anl \in Loaded /\ img = anl /\ panels' = anl /\ apart' = {}
      /\ anl \in finished \union spoiled'
  BY DEF IInv, TypeOK, Handoff, Rebase, Maybe
<1>1. TypeOK'
  BY <1>0 DEF IInv, TypeOK, Rebase, Maybe, Stage, Loaded, tasks, flags
<1>2. Threads'
  BY <1>0 DEF IInv, Threads, Rebase, Analysing, Loaded, tasks, flags
<1>3. Handoff'
  BY <1>0 DEF IInv, Handoff, Rebase, tasks, flags
<1>4. Comparisons'
  BY <1>0 DEF IInv, Comparisons, Rebase, Comparing, tasks
<1> QED  BY <1>1, <1>2, <1>3, <1>4 DEF IInv

LEMMA CompareWithStep ==
  ASSUME IInv, NEW f \in File, CompareWith(f)  PROVE IInv'
<1>0. /\ Fresh \in Object /\ Fresh \notin Loaded /\ None \notin Loaded /\ Fresh # None
      /\ origin' \in Seq(File) /\ Len(origin') <= MaxObjects
      /\ Loaded' = Loaded \union {Fresh}
      /\ \A o \in Loaded : origin'[o] = origin[o]
  BY LoadedObjects, LoadAdds, NoneIsNoObject DEF IInv, CompareWith, Loaded
<1>1. TypeOK'
  BY <1>0 DEF IInv, TypeOK, CompareWith, Maybe, Stage, flags, views
<1>2. Threads'
  BY <1>0 DEF IInv, TypeOK, Threads, CompareWith, Analysing, flags, views
<1>3. Handoff'
  BY <1>0 DEF IInv, TypeOK, Maybe, Handoff, CompareWith, flags, views
<1>4. Comparisons'
  BY <1>0 DEF IInv, TypeOK, Handoff, Comparisons, CompareWith, Comparing, flags, views
<1> QED  BY <1>1, <1>2, <1>3, <1>4 DEF IInv

LEMMA ComparisonStep ==
  ASSUME IInv, NEW o \in Object, Comparison(o)
  PROVE  IInv'
<1>1. CASE DiffStart(o)
  <2>1. TypeOK'
    BY <1>1 DEF IInv, TypeOK, DiffStart, Maybe, Stage, Loaded, flags, views, past
  <2>2. Threads'
    BY <1>1 DEF IInv, TypeOK, Threads, DiffStart, Analysing, Loaded, flags, views, past
  <2>3. Handoff'
    BY <1>1 DEF IInv, Handoff, DiffStart, flags, views, past
  <2>4. Comparisons'
    BY <1>1 DEF IInv, TypeOK, Comparisons, DiffStart, Comparing, flags, views, past
  <2> QED  BY <2>1, <2>2, <2>3, <2>4 DEF IInv
<1>2. CASE DiffRun(o)
  <2>1. TypeOK'
    BY <1>2 DEF IInv, TypeOK, Comparisons, DiffRun, Maybe, Stage, Loaded, flags, views
  <2>2. Threads'
    BY <1>2 DEF IInv, TypeOK, Threads, DiffRun, Analysing, Loaded, flags, views
  <2>3. Handoff'
    BY <1>2 DEF IInv, Handoff, DiffRun, flags, views
  <2>4. Comparisons'
    BY <1>2 DEF IInv, TypeOK, Comparisons, DiffRun, Comparing, flags, views
  <2> QED  BY <2>1, <2>2, <2>3, <2>4 DEF IInv
<1>3. CASE DiffCompare(o)
  <2>1. TypeOK'
    BY <1>3 DEF IInv, TypeOK, DiffCompare, Maybe, Stage, Loaded, flags, views, past
  <2>2. Threads'
    BY <1>3 DEF IInv, TypeOK, Threads, DiffCompare, Analysing, Loaded, flags, views, past
  <2>3. Handoff'
    BY <1>3 DEF IInv, Handoff, DiffCompare, flags, views, past
  <2>4. Comparisons'
    BY <1>3 DEF IInv, TypeOK, Comparisons, DiffCompare, Comparing, flags, views, past
  <2> QED  BY <2>1, <2>2, <2>3, <2>4 DEF IInv
<1>4. CASE DiffReport(o)
  <2>1. TypeOK'
    BY <1>4 DEF IInv, TypeOK, DiffReport, Maybe, Stage, Loaded, views, past
  <2>2. Threads'
    BY <1>4 DEF IInv, TypeOK, Threads, DiffReport, Analysing, Loaded, views, past
  <2>3. Handoff'
    BY <1>4 DEF IInv, Handoff, DiffReport, views, past
  <2>4. Comparisons'
    BY <1>4 DEF IInv, TypeOK, Comparisons, DiffReport, Comparing, views, past
  <2> QED  BY <2>1, <2>2, <2>3, <2>4 DEF IInv
<1> QED  BY <1>1, <1>2, <1>3, <1>4 DEF Comparison

(* The steps that change no flag, no pointer and no thread.                *)
LEMMA BystanderStep ==
  ASSUME IInv,
         UNCHANGED <<mode, path, busy, ready, img, anl, diffAnl, views, tasks, past>>,
         diffReady' \in BOOLEAN, saved' \in [File -> Maybe(Loaded)]
  PROVE  IInv'
<1>1. TypeOK'
  BY DEF IInv, TypeOK, Maybe, Loaded, views, tasks, past
<1>2. (Threads /\ Handoff /\ Comparisons)'
  BY DEF IInv, Threads, Handoff, Comparisons, Loaded, views, tasks, past
<1> QED  BY <1>1, <1>2 DEF IInv

LEMMA Step == IInv /\ [SessionNext]_sessionVars => IInv'
<1> SUFFICES ASSUME IInv, [SessionNext]_sessionVars PROVE IInv'  OBVIOUS
<1>0. diffReady \in BOOLEAN /\ saved \in [File -> Maybe(Loaded)] /\ anl \in Maybe(Loaded)
  BY DEF IInv, TypeOK
<1>1. ASSUME NEW f \in File, Open(f)  PROVE IInv'
  BY <1>1, LoadStep DEF Open
<1>2. ASSUME NEW f \in File, CompareWith(f)  PROVE IInv'
  BY <1>2, CompareWithStep
<1>3. ASSUME NEW f \in File, McpOpen(f)  PROVE IInv'
  <2>1. CASE OpenFile(f)  BY <1>3, <2>1, LoadStep DEF McpOpen
  <2>2. CASE UNCHANGED <<mode, path, flags, img, anl, diffAnl, views, tasks, past, saved>>
    BY <1>0, <2>2, BystanderStep DEF flags
  <2> QED  BY <1>3, <2>1, <2>2 DEF McpOpen
<1>4. ASSUME NEW o \in Object, Analysis(o)  PROVE IInv'
  BY <1>4, AnalysisStep
<1>5. ASSUME NEW o \in Object, Comparison(o)  PROVE IInv'
  BY <1>5, ComparisonStep
<1>6. CASE Pickup  BY <1>6, PickupStep
<1>7. CASE DiffPickup
  BY <1>0, <1>7, BystanderStep DEF DiffPickup
<1>8. ASSUME WriteProject  PROVE saved' \in [File -> Maybe(Loaded)]
  BY <1>0, <1>8 DEF WriteProject
<1>9. CASE Save
  BY <1>0, <1>8, <1>9, BystanderStep DEF Save, flags
<1>10. CASE Autosave
  BY <1>0, <1>8, <1>10, BystanderStep DEF Autosave, flags
<1>11. CASE McpStatus \/ McpTool
  BY <1>0, <1>11, BystanderStep DEF McpStatus, McpTool, flags
<1>12. CASE UNCHANGED sessionVars
  BY <1>0, <1>12, BystanderStep DEF sessionVars, flags
<1>13. CASE Rebase  BY <1>13, RebaseStep
<1> QED
  BY <1>1, <1>2, <1>3, <1>4, <1>5, <1>6, <1>7, <1>9, <1>10, <1>11, <1>12, <1>13 DEF SessionNext

(* The invariant of the handoff, for every session: while busy_ is set, one   *)
(* thread works on analyzer_ or analysis_done_ is set, and never both.       *)
THEOREM HandoffHolds == SessionSpec => []IInv
<1> QED  BY Initially, Step, PTL DEF SessionSpec, Safe

(* The types of the session hold throughout.                               *)
THEOREM TypeCorrect == SessionSpec => []TypeOK
<1>1. IInv => TypeOK  BY DEF IInv
<1> QED  BY <1>1, HandoffHolds, PTL

(* No panel ever draws from a database that open_file replaced.  One that the *)
(* analysis thread has not finished is drawn only if rebase moved it then.   *)
THEOREM PanelsAreSafe == SessionSpec => []PanelsDrawFinished
<1>1. IInv => PanelsDrawFinished  BY DEF IInv, Handoff, PanelsDrawFinished
<1> QED  BY <1>1, HandoffHolds, PTL

(* Between analyses the panels are at img_ or, after a failed open, blank, and *)
(* scripts and the class view at analyzer_ as long as there is one.          *)
THEOREM ViewsAlwaysAgree == SessionSpec => []ViewsAgree
<1>1. IInv => ViewsAgree  BY DEF IInv, Handoff, ViewsAgree
<1> QED  BY <1>1, HandoffHolds, PTL

(* on_analysis_complete fires once per analysis, and after it.              *)
THEOREM HandoffIsOnce == SessionSpec => HandedOnce
<1>1. IInv => [Pickup => anl \in finished \ handed]_sessionVars
  BY DEF IInv, Handoff, Pickup
<1> QED  BY <1>1, HandoffHolds, PTL DEF HandedOnce

(* The project file that autosave_tick writes holds a finished analysis of  *)
(* the file it is named after, unless an open failed before it.            *)
THEOREM AutosaveIsSound == SessionSpec => AutosaveIsWhole
<1>1. ASSUME IInv, Autosave
      PROVE  saved'[path] \in finished /\ (astray \/ origin[saved'[path]] = path)
  <2>1. saved'[path] = anl
    BY <1>1 DEF IInv, TypeOK, Autosave, WriteProject, Maybe
  <2> QED  BY <1>1, <2>1 DEF IInv, Handoff, Autosave
<1>2. IInv => [Autosave => saved'[path] \in finished /\ (astray \/ origin[saved'[path]] = path)]_sessionVars
  BY <1>1
<1> QED  BY <1>2, HandoffHolds, PTL DEF AutosaveIsWhole

(* A comparison nothing disturbed reads two finished databases.             *)
THEOREM ComparisonIsSound == SessionSpec => ComparesFinished
<1>1. ASSUME IInv, NEW o \in apart, DiffCompare(o)
      PROVE  anl \in finished /\ compared' = <<anl, o>> /\ o \in finished
  <2>1. o \in Object  BY <1>1, LoadedObjects DEF IInv, TypeOK
  <2> QED  BY <1>1, <2>1 DEF IInv, Comparisons, Comparing, DiffCompare
<1>2. IInv => [\A o \in apart : DiffCompare(o) =>
                 anl \in finished /\ compared' = <<anl, o>> /\ o \in finished]_sessionVars
  BY <1>1
<1> QED  BY <1>2, HandoffHolds, PTL DEF ComparesFinished

-----------------------------------------------------------------------------
(* A bag counts; the part of one that ends at `a`; the parts by their ends.  *)
Counts(bag) == \A x \in DOMAIN bag : bag[x] \in Nat
IsFcn(f) == f = [x \in DOMAIN f |-> f[x]]
Part(bag, End, a) == [x \in {y \in DOMAIN bag : End[y] = a} |-> bag[x]]
IsIndex(index, bag, End) ==
  /\ \A x \in DOMAIN bag : End[x] \in DOMAIN index
  /\ \A a \in DOMAIN index : index[a] = Part(bag, End, a)

ToEnds(bag) == [x \in DOMAIN bag |-> x.to]
FromEnds(bag) == [x \in DOMAIN bag |-> x.from]

(* The tables of references: the entry of an address is all that the list    *)
(* holds with that end.                                                    *)
Indexes ==
  /\ Counts(xrefs) /\ IsFcn(xrefs)
  /\ IsFcn(xrefsTo) /\ IsIndex(xrefsTo, xrefs, ToEnds(xrefs))
  /\ IsFcn(xrefsFrom) /\ IsIndex(xrefsFrom, xrefs, FromEnds(xrefs))

LEMMA PartOfSum ==
  ASSUME NEW bag, NEW more, NEW End, NEW a
  PROVE  Part(bag (+) more, End, a) = Part(bag, End, a) (+) Part(more, End, a)
<1> DEFINE L == Part(bag (+) more, End, a)
           R == Part(bag, End, a) (+) Part(more, End, a)
<1>1. DOMAIN L = DOMAIN R
  BY DEF Part, (+)
<1>2. ASSUME NEW x \in DOMAIN L PROVE L[x] = R[x]
  BY DEF Part, (+)
<1>3. L = [x \in DOMAIN L |-> L[x]] /\ R = [x \in DOMAIN R |-> R[x]]
  BY DEF Part, (+)
<1> HIDE DEF L, R
<1>4. [x \in DOMAIN L |-> L[x]] = [x \in DOMAIN R |-> R[x]]
  BY <1>1, <1>2
<1>5. L = R
  BY <1>3, <1>4
<1> QED  BY <1>5 DEF L, R

LEMMA SumWithEmpty ==
  ASSUME NEW bag, Counts(bag), IsFcn(bag)
  PROVE  bag (+) EmptyBag = bag /\ EmptyBag (+) bag = bag
<1>0. DOMAIN EmptyBag = {}
  BY DEF EmptyBag, SetToBag
<1> DEFINE L == bag (+) EmptyBag
           R == EmptyBag (+) bag
<1>1. L = [x \in DOMAIN bag |-> bag[x] + 0]
  BY <1>0 DEF (+)
<1>2. R = [x \in DOMAIN bag |-> 0 + bag[x]]
  BY <1>0 DEF (+)
<1>3. \A x \in DOMAIN bag : bag[x] + 0 = bag[x] /\ 0 + bag[x] = bag[x]
  BY DEF Counts
<1> HIDE DEF L, R
<1>4. L = [x \in DOMAIN bag |-> bag[x]] /\ R = [x \in DOMAIN bag |-> bag[x]]
  BY <1>1, <1>2, <1>3
<1>5. L = bag /\ R = bag
  BY <1>4 DEF IsFcn
<1> QED  BY <1>5 DEF L, R

LEMMA SumCounts ==
  ASSUME NEW bag, NEW more, Counts(bag), Counts(more)
  PROVE  Counts(bag (+) more) /\ IsFcn(bag (+) more)
         /\ DOMAIN (bag (+) more) = DOMAIN bag \cup DOMAIN more
BY DEF Counts, IsFcn, (+)

LEMMA PartCounts ==
  ASSUME NEW bag, NEW End, NEW a, Counts(bag)
  PROVE  Counts(Part(bag, End, a)) /\ IsFcn(Part(bag, End, a))
BY DEF Counts, IsFcn, Part

(* add_xref keeps an index an index.                                        *)
GrownBy(index, more, End) ==
  [a \in DOMAIN index \cup {End[x] : x \in DOMAIN more} |->
     (IF a \in DOMAIN index THEN index[a] ELSE EmptyBag) (+) Part(more, End, a)]

LEMMA IndexGrows ==
  ASSUME NEW index, NEW bag, NEW more, NEW End,
         Counts(bag), Counts(more), IsIndex(index, bag, End)
  PROVE  IsIndex(GrownBy(index, more, End), bag (+) more, End)
<1> DEFINE G == GrownBy(index, more, End)
           new == bag (+) more
<1>1. \A x \in DOMAIN new : End[x] \in DOMAIN G
  <2>1. DOMAIN new = DOMAIN bag \cup DOMAIN more
    BY SumCounts
  <2>2. DOMAIN G = DOMAIN index \cup {End[x] : x \in DOMAIN more}
    BY DEF GrownBy
  <2> HIDE DEF new, G
  <2> QED  BY <2>1, <2>2 DEF IsIndex
<1>2. ASSUME NEW a \in DOMAIN G PROVE G[a] = Part(new, End, a)
  <2>1. G[a] = (IF a \in DOMAIN index THEN index[a] ELSE EmptyBag) (+) Part(more, End, a)
    BY DEF GrownBy
  <2>2. Part(new, End, a) = Part(bag, End, a) (+) Part(more, End, a)
    BY PartOfSum
  <2>3. CASE a \in DOMAIN index
    BY <2>1, <2>2, <2>3 DEF IsIndex
  <2>4. CASE a \notin DOMAIN index
    <3>1. {y \in DOMAIN bag : End[y] = a} = {}
      BY <2>4 DEF IsIndex
    <3>2. Part(bag, End, a) = EmptyBag
      BY <3>1 DEF Part, EmptyBag, SetToBag
    <3> QED  BY <2>1, <2>2, <2>4, <3>2
  <2> QED  BY <2>3, <2>4
<1> QED  BY <1>1, <1>2 DEF IsIndex

(* Making a jump a call, in a list and in its part.                          *)
LEMMA AsCallIs ==
  ASSUME NEW bag, NEW jump, Counts(bag)
  PROVE  LET call == [jump EXCEPT !.type = "call"]
             D == (DOMAIN bag \ {jump}) \cup (IF jump \in DOMAIN bag THEN {call} ELSE {})
         IN AsCall(bag, jump) =
              [x \in D |-> (IF x \in DOMAIN bag \ {jump} THEN bag[x] ELSE 0)
                           + (IF jump \in DOMAIN bag /\ x = call THEN bag[jump] ELSE 0)]
<1> DEFINE call == [jump EXCEPT !.type = "call"]
           A == [x \in DOMAIN bag \ {jump} |-> bag[x]]
           B == IF jump \in DOMAIN bag THEN [x \in {call} |-> bag[jump]] ELSE EmptyBag
<1>1. AsCall(bag, jump) = A (+) B
  BY DEF AsCall
<1>2. DOMAIN A = DOMAIN bag \ {jump} /\ \A x \in DOMAIN A : A[x] = bag[x]
  OBVIOUS
<1>3. DOMAIN EmptyBag = {}
  BY DEF EmptyBag, SetToBag
<1> HIDE DEF call
<1>4. DOMAIN B = (IF jump \in DOMAIN bag THEN {call} ELSE {})
      /\ (jump \in DOMAIN bag => B[call] = bag[jump])
  BY <1>3
<1> HIDE DEF A, B
<1>5. A (+) B = [x \in DOMAIN A \cup DOMAIN B |->
                   (IF x \in DOMAIN A THEN A[x] ELSE 0) + (IF x \in DOMAIN B THEN B[x] ELSE 0)]
  BY DEF (+)
<1>6. \A x : (IF x \in DOMAIN A THEN A[x] ELSE 0) = (IF x \in DOMAIN bag \ {jump} THEN bag[x] ELSE 0)
  BY <1>2
<1>7. \A x : (IF x \in DOMAIN B THEN B[x] ELSE 0)
               = (IF jump \in DOMAIN bag /\ x = call THEN bag[jump] ELSE 0)
  BY <1>4
<1>8. DOMAIN A \cup DOMAIN B = (DOMAIN bag \ {jump}) \cup (IF jump \in DOMAIN bag THEN {call} ELSE {})
  BY <1>2, <1>4
<1>9. A (+) B = [x \in (DOMAIN bag \ {jump}) \cup (IF jump \in DOMAIN bag THEN {call} ELSE {}) |->
                   (IF x \in DOMAIN bag \ {jump} THEN bag[x] ELSE 0)
                           + (IF jump \in DOMAIN bag /\ x = call THEN bag[jump] ELSE 0)]
  BY <1>5, <1>6, <1>7, <1>8
<1> QED  BY <1>1, <1>9 DEF call

LEMMA PartOfCalls ==
  ASSUME NEW bag, NEW jump, NEW End, NEW a, Counts(bag),
         End[jump] = a, End[[jump EXCEPT !.type = "call"]] = a
  PROVE  /\ Part(AsCall(bag, jump), End, a) = AsCall(Part(bag, End, a), jump)
         /\ \A c : c # a => Part(AsCall(bag, jump), End, c) = Part(bag, End, c)
<1> DEFINE call == [jump EXCEPT !.type = "call"]
           Of(b) == (DOMAIN b \ {jump}) \cup (IF jump \in DOMAIN b THEN {call} ELSE {})
           At1(b, x) == (IF x \in DOMAIN b \ {jump} THEN b[x] ELSE 0)
                        + (IF jump \in DOMAIN b /\ x = call THEN b[jump] ELSE 0)
           P == Part(bag, End, a)
<1>1. AsCall(bag, jump) = [x \in Of(bag) |-> At1(bag, x)]
  BY AsCallIs
<1>2. AsCall(P, jump) = [x \in Of(P) |-> At1(P, x)]
  <2>1. Counts(P)
    BY PartCounts
  <2> HIDE DEF P
  <2> QED  BY <2>1, AsCallIs
<1>3. End[call] = a
  OBVIOUS
<1> HIDE DEF call
<1>4. DOMAIN P = {y \in DOMAIN bag : End[y] = a} /\ \A x \in DOMAIN P : P[x] = bag[x]
  BY DEF Part
<1>5. Part(AsCall(bag, jump), End, a) = AsCall(P, jump)
  <2>1. {y \in Of(bag) : End[y] = a} = Of(P)
    <3> HIDE DEF P
    <3> QED  BY <1>3, <1>4
  <2>2. \A x \in Of(P) : At1(P, x) = At1(bag, x)
    <3> SUFFICES ASSUME NEW x \in Of(P) PROVE At1(P, x) = At1(bag, x)
      OBVIOUS
    <3> HIDE DEF P
    <3>1. jump \in DOMAIN P <=> jump \in DOMAIN bag
      BY <1>4
    <3>2. x \in DOMAIN P \ {jump} <=> x \in DOMAIN bag \ {jump}
      BY <1>3, <1>4
    <3>3. (IF x \in DOMAIN P \ {jump} THEN P[x] ELSE 0) = (IF x \in DOMAIN bag \ {jump} THEN bag[x] ELSE 0)
      BY <1>4, <3>2
    <3>4. (IF jump \in DOMAIN P /\ x = call THEN P[jump] ELSE 0)
            = (IF jump \in DOMAIN bag /\ x = call THEN bag[jump] ELSE 0)
      BY <1>4, <3>1
    <3> QED  BY <3>3, <3>4
  <2>3. Part(AsCall(bag, jump), End, a) = [x \in {y \in Of(bag) : End[y] = a} |-> At1(bag, x)]
    <3> HIDE DEF At1, Of
    <3> QED  BY <1>1 DEF Part
  <2> HIDE DEF P, At1, Of
  <2> QED  BY <1>2, <2>1, <2>2, <2>3
<1>6. ASSUME NEW c, c # a PROVE Part(AsCall(bag, jump), End, c) = Part(bag, End, c)
  <2>1. {y \in Of(bag) : End[y] = c} = {y \in DOMAIN bag : End[y] = c}
    BY <1>3, <1>6
  <2>2. \A x \in {y \in DOMAIN bag : End[y] = c} : At1(bag, x) = bag[x]
    <3> SUFFICES ASSUME NEW x \in {y \in DOMAIN bag : End[y] = c} PROVE At1(bag, x) = bag[x]
      OBVIOUS
    <3>1. x # jump /\ x # call
      BY <1>3, <1>6
    <3>2. bag[x] \in Nat
      BY DEF Counts
    <3> QED  BY <3>1, <3>2
  <2>3. Part(AsCall(bag, jump), End, c) = [x \in {y \in Of(bag) : End[y] = c} |-> At1(bag, x)]
    <3> HIDE DEF At1, Of
    <3> QED  BY <1>1 DEF Part
  <2> HIDE DEF P, At1, Of
  <2> QED  BY <2>1, <2>2, <2>3 DEF Part
<1>7. Part(AsCall(bag, jump), End, a) = AsCall(Part(bag, End, a), jump)
  BY <1>5 DEF P
<1> QED  BY <1>6, <1>7

LEMMA AsCallCounts ==
  ASSUME NEW bag, NEW jump, Counts(bag)
  PROVE  /\ Counts(AsCall(bag, jump)) /\ IsFcn(AsCall(bag, jump))
         /\ \A x \in DOMAIN AsCall(bag, jump) :
              x \in DOMAIN bag \/ (jump \in DOMAIN bag /\ x = [jump EXCEPT !.type = "call"])
<1> DEFINE call == [jump EXCEPT !.type = "call"]
           D == (DOMAIN bag \ {jump}) \cup (IF jump \in DOMAIN bag THEN {call} ELSE {})
           N(x) == (IF x \in DOMAIN bag \ {jump} THEN bag[x] ELSE 0)
                   + (IF jump \in DOMAIN bag /\ x = call THEN bag[jump] ELSE 0)
<1>1. AsCall(bag, jump) = [x \in D |-> N(x)]
  BY AsCallIs
<1> HIDE DEF call
<1>2. \A x \in D : N(x) \in Nat
  <2> SUFFICES ASSUME NEW x \in D PROVE N(x) \in Nat
    OBVIOUS
  <2>1. (IF x \in DOMAIN bag \ {jump} THEN bag[x] ELSE 0) \in Nat
    BY DEF Counts
  <2>2. (IF jump \in DOMAIN bag /\ x = call THEN bag[jump] ELSE 0) \in Nat
    BY DEF Counts
  <2> QED  BY <2>1, <2>2
<1>3. \A x \in D : x \in DOMAIN bag \/ (jump \in DOMAIN bag /\ x = call)
  OBVIOUS
<1> HIDE DEF D, N
<1>4. Counts(AsCall(bag, jump)) /\ IsFcn(AsCall(bag, jump)) /\ DOMAIN AsCall(bag, jump) = D
  BY <1>1, <1>2 DEF Counts, IsFcn
<1> QED  BY <1>3, <1>4 DEF call

LEMMA IndexRetypes ==
  ASSUME NEW index, NEW bag, NEW jump, NEW End, NEW a \in DOMAIN index,
         Counts(bag), IsIndex(index, bag, End),
         End[jump] = a, End[[jump EXCEPT !.type = "call"]] = a
  PROVE  IsIndex(Retype(index, a, jump), AsCall(bag, jump), End)
<1> DEFINE R == Retype(index, a, jump)
           new == AsCall(bag, jump)
<1>1. DOMAIN R = DOMAIN index /\ R[a] = AsCall(index[a], jump)
      /\ \A c \in DOMAIN index \ {a} : R[c] = index[c]
  BY DEF Retype
<1>2. \A x \in DOMAIN new : End[x] \in DOMAIN index
  BY AsCallCounts DEF IsIndex
<1>3. index[a] = Part(bag, End, a) /\ \A c \in DOMAIN index : index[c] = Part(bag, End, c)
  BY DEF IsIndex
<1>4. /\ Part(new, End, a) = AsCall(Part(bag, End, a), jump)
      /\ \A c : c # a => Part(new, End, c) = Part(bag, End, c)
  BY PartOfCalls
<1> HIDE DEF R, new
<1>5. \A c \in DOMAIN R : R[c] = Part(new, End, c)
  BY <1>1, <1>3, <1>4
<1>6. IsIndex(R, new, End)
  BY <1>1, <1>2, <1>5 DEF IsIndex
<1> QED  BY <1>6 DEF R, new

LEMMA BagsOfSets ==
  /\ \A S : Counts(SetToBag(S)) /\ IsFcn(SetToBag(S)) /\ DOMAIN SetToBag(S) = S
  /\ Counts(EmptyBag) /\ IsFcn(EmptyBag) /\ DOMAIN EmptyBag = {}
BY DEF Counts, IsFcn, SetToBag, EmptyBag

(* An index only asks for the ends of what is in the list.                  *)
LEMMA IndexByOther ==
  ASSUME NEW index, NEW bag, NEW E1, NEW E2, IsIndex(index, bag, E1),
         \A x \in DOMAIN bag : E1[x] = E2[x]
  PROVE  IsIndex(index, bag, E2)
<1>1. \A a : {x \in DOMAIN bag : E1[x] = a} = {x \in DOMAIN bag : E2[x] = a}
  OBVIOUS
<1>2. \A a : Part(bag, E1, a) = Part(bag, E2, a)
  BY <1>1 DEF Part
<1> QED  BY <1>2 DEF IsIndex

LEMMA AddXrefsKeeps ==
  ASSUME Indexes, NEW bag, Counts(bag), AddXrefs(bag)
  PROVE  Indexes'
<1> DEFINE D == DOMAIN xrefs \cup DOMAIN bag
           T == [x \in D |-> x.to]
           F == [x \in D |-> x.from]
           new == xrefs (+) bag
<1>1. xrefs' = new /\ Counts(new) /\ IsFcn(new) /\ DOMAIN new = D
  BY SumCounts DEF AddXrefs, Indexes
<1>2. /\ \A x \in D : T[x] = x.to /\ F[x] = x.from
      /\ \A x \in DOMAIN bag : T[x] = x.to /\ F[x] = x.from
      /\ \A x \in DOMAIN xrefs : T[x] = x.to /\ F[x] = x.from
  OBVIOUS
<1> HIDE DEF T, F
<1>3. xrefsTo' = GrownBy(xrefsTo, bag, T)
  <2>1. {T[x] : x \in DOMAIN bag} = {x.to : x \in DOMAIN bag}
    BY <1>2
  <2>2. \A a : {y \in DOMAIN bag : y.to = a} = {y \in DOMAIN bag : T[y] = a}
    BY <1>2
  <2>3. xrefsTo' = [a \in DOMAIN xrefsTo \cup {x.to : x \in DOMAIN bag} |->
                      (IF a \in DOMAIN xrefsTo THEN xrefsTo[a] ELSE EmptyBag)
                        (+) [x \in {y \in DOMAIN bag : y.to = a} |-> bag[x]]]
    BY DEF AddXrefs, Grown
  <2> QED  BY <2>1, <2>2, <2>3 DEF GrownBy, Part
<1>4. xrefsFrom' = GrownBy(xrefsFrom, bag, F)
  <2>1. {F[x] : x \in DOMAIN bag} = {x.from : x \in DOMAIN bag}
    BY <1>2
  <2>2. \A a : {y \in DOMAIN bag : y.from = a} = {y \in DOMAIN bag : F[y] = a}
    BY <1>2
  <2>3. xrefsFrom' = [a \in DOMAIN xrefsFrom \cup {x.from : x \in DOMAIN bag} |->
                      (IF a \in DOMAIN xrefsFrom THEN xrefsFrom[a] ELSE EmptyBag)
                        (+) [x \in {y \in DOMAIN bag : y.from = a} |-> bag[x]]]
    BY DEF AddXrefs, Grown
  <2> QED  BY <2>1, <2>2, <2>3 DEF GrownBy, Part
<1> HIDE DEF D, new
<1>5. IsIndex(xrefsTo', xrefs', ToEnds(xrefs'))
  <2>1. IsIndex(xrefsTo, xrefs, T)
    <3>1. IsIndex(xrefsTo, xrefs, ToEnds(xrefs))
      BY DEF Indexes
    <3>2. \A x \in DOMAIN xrefs : ToEnds(xrefs)[x] = T[x]
      BY <1>2 DEF ToEnds
    <3> QED  BY <3>1, <3>2, IndexByOther
  <2>2. IsIndex(xrefsTo', new, T)
    BY <1>3, <2>1, IndexGrows DEF Indexes, new
  <2>3. \A x \in DOMAIN new : T[x] = ToEnds(new)[x]
    BY <1>1, <1>2 DEF ToEnds
  <2>4. IsIndex(xrefsTo', new, ToEnds(new))
    BY <2>2, <2>3, IndexByOther
  <2> QED  BY <1>1, <2>4
<1>6. IsIndex(xrefsFrom', xrefs', FromEnds(xrefs'))
  <2>1. IsIndex(xrefsFrom, xrefs, F)
    <3>1. IsIndex(xrefsFrom, xrefs, FromEnds(xrefs))
      BY DEF Indexes
    <3>2. \A x \in DOMAIN xrefs : FromEnds(xrefs)[x] = F[x]
      BY <1>2 DEF FromEnds
    <3> QED  BY <3>1, <3>2, IndexByOther
  <2>2. IsIndex(xrefsFrom', new, F)
    BY <1>4, <2>1, IndexGrows DEF Indexes, new
  <2>3. \A x \in DOMAIN new : F[x] = FromEnds(new)[x]
    BY <1>1, <1>2 DEF FromEnds
  <2>4. IsIndex(xrefsFrom', new, FromEnds(new))
    BY <2>2, <2>3, IndexByOther
  <2> QED  BY <1>1, <2>4
<1>7. Counts(xrefs') /\ IsFcn(xrefs') /\ IsFcn(xrefsTo') /\ IsFcn(xrefsFrom')
  BY <1>1, <1>3, <1>4 DEF GrownBy, IsFcn
<1> QED  BY <1>5, <1>6, <1>7 DEF Indexes

(* One more reference in the list, and the jump made a call.                *)
LEMMA IndexTails ==
  ASSUME NEW index, NEW bag, NEW End, NEW jump, NEW call,
         Counts(bag), IsIndex(index, bag, End), call = [jump EXCEPT !.type = "call"],
         End[jump] = End[call]
  PROVE  IsIndex(Retype(GrownBy(index, SetToBag({call}), End), End[call], jump),
                 AsCall(bag (+) SetToBag({call}), jump), End)
<1> DEFINE more == SetToBag({call})
           G == GrownBy(index, more, End)
           new == bag (+) more
<1>1. Counts(more) /\ DOMAIN more = {call}
  BY BagsOfSets
<1>2. Counts(new)
  BY <1>1, SumCounts
<1>3. IsIndex(G, new, End)
  BY <1>1, IndexGrows
<1>4. End[call] \in DOMAIN G
  BY <1>1 DEF GrownBy
<1> HIDE DEF G, new
<1>5. IsIndex(Retype(G, End[call], jump), AsCall(new, jump), End)
  BY <1>2, <1>3, <1>4, IndexRetypes
<1> QED  BY <1>5 DEF G, new, more

LEMMA SameRefs == Indexes /\ UNCHANGED refs => Indexes'
<1> SUFFICES ASSUME Indexes, xrefs' = xrefs, xrefsTo' = xrefsTo, xrefsFrom' = xrefsFrom
             PROVE  Indexes'
  BY DEF refs
<1> QED  BY DEF Indexes

LEMMA TailCallKeeps ==
  ASSUME Indexes, NEW b \in left, TailCall(b)
  PROVE  Indexes'
<1> DEFINE from == Last(At(b).list)
           to == Insn(from).to
           jump == Xref(from, to, "jump")
           called == Xref(from, to, "call")
           call == SetToBag({called})
           D == DOMAIN xrefs \cup {jump, called}
           T == [x \in D |-> x.to]
           F == [x \in D |-> x.from]
           new == AsCall(xrefs (+) call, jump)
<1>1. CASE UNCHANGED refs
  BY <1>1, SameRefs
<1>2. CASE ~ UNCHANGED refs
  <2>1. /\ xrefs' = new
        /\ xrefsTo' = Retype(Grown(xrefsTo, call, LAMBDA x : x.to), to, jump)
        /\ xrefsFrom' = Retype(Grown(xrefsFrom, call, LAMBDA x : x.from), from, jump)
    BY <1>2 DEF TailCall
  <2>2. /\ called = [jump EXCEPT !.type = "call"]
        /\ jump.to = to /\ called.to = to /\ jump.from = from /\ called.from = from
    BY DEF Xref
  <2> HIDE DEF jump, called
  <2>3. DOMAIN call = {called} /\ Counts(call)
    BY BagsOfSets
  <2> HIDE DEF call
  <2>4. Counts(xrefs (+) call) /\ DOMAIN (xrefs (+) call) = DOMAIN xrefs \cup {called}
    BY <2>3, SumCounts DEF Indexes
  <2>5. Counts(new) /\ IsFcn(new) /\ \A x \in DOMAIN new : x \in D
    BY <2>2, <2>4, AsCallCounts
  <2> HIDE DEF new
  <2>6. /\ \A x \in D : T[x] = x.to /\ F[x] = x.from
        /\ T[jump] = to /\ T[called] = to /\ F[jump] = from /\ F[called] = from
    BY <2>2
  <2>7. \A x \in DOMAIN xrefs : ToEnds(xrefs)[x] = T[x] /\ FromEnds(xrefs)[x] = F[x]
    BY <2>6 DEF ToEnds, FromEnds
  <2>8. \A x \in DOMAIN new : T[x] = ToEnds(new)[x] /\ F[x] = FromEnds(new)[x]
    BY <2>5, <2>6 DEF ToEnds, FromEnds
  <2> HIDE DEF T, F, D, from, to
  <2>9. IsIndex(xrefsTo, xrefs, T) /\ IsIndex(xrefsFrom, xrefs, F)
    BY <2>7, IndexByOther DEF Indexes
  <2>10. /\ Grown(xrefsTo, call, LAMBDA x : x.to) = GrownBy(xrefsTo, call, T)
         /\ Grown(xrefsFrom, call, LAMBDA x : x.from) = GrownBy(xrefsFrom, call, F)
    <3>1. \A x \in DOMAIN call : x.to = T[x] /\ x.from = F[x]
      BY <2>2, <2>3, <2>6
    <3>2. /\ {x.to : x \in DOMAIN call} = {T[x] : x \in DOMAIN call}
          /\ {x.from : x \in DOMAIN call} = {F[x] : x \in DOMAIN call}
      BY <3>1
    <3>3. \A a : /\ {y \in DOMAIN call : y.to = a} = {y \in DOMAIN call : T[y] = a}
                 /\ {y \in DOMAIN call : y.from = a} = {y \in DOMAIN call : F[y] = a}
      BY <3>1
    <3> QED  BY <3>2, <3>3 DEF Grown, GrownBy, Part
  <2>11. IsIndex(xrefsTo', new, T)
    <3>1. IsIndex(Retype(GrownBy(xrefsTo, call, T), T[called], jump), new, T)
      BY <2>2, <2>6, <2>9, IndexTails DEF Indexes, new, call
    <3> QED  BY <2>1, <2>6, <2>10, <3>1
  <2>12. IsIndex(xrefsFrom', new, F)
    <3>1. IsIndex(Retype(GrownBy(xrefsFrom, call, F), F[called], jump), new, F)
      BY <2>2, <2>6, <2>9, IndexTails DEF Indexes, new, call
    <3> QED  BY <2>1, <2>6, <2>10, <3>1
  <2>13. IsIndex(xrefsTo', xrefs', ToEnds(xrefs')) /\ IsIndex(xrefsFrom', xrefs', FromEnds(xrefs'))
    BY <2>1, <2>8, <2>11, <2>12, IndexByOther
  <2>14. IsFcn(xrefsTo') /\ IsFcn(xrefsFrom')
    BY <2>1 DEF Retype, Grown, IsFcn
  <2> QED  BY <2>1, <2>5, <2>13, <2>14 DEF Indexes
<1> QED  BY <1>1, <1>2

(* Every pass keeps the tables in agreement.                                *)
THEOREM IndexesHold == Spec => []Indexes
<1>1. Init => Indexes
  <2> SUFFICES ASSUME Init PROVE Indexes
    OBVIOUS
  <2>1. xrefs = EmptyBag /\ xrefsTo = <<>> /\ xrefsFrom = <<>>
    BY DEF Init
  <2>2. DOMAIN <<>> = {}
    OBVIOUS
  <2>3. IsFcn(<<>>)
    BY DEF IsFcn
  <2>4. Counts(xrefs) /\ IsFcn(xrefs) /\ DOMAIN xrefs = {}
    BY <2>1, BagsOfSets
  <2>5. \A End : IsIndex(<<>>, xrefs, End)
    BY <2>2, <2>4 DEF IsIndex
  <2> QED  BY <2>1, <2>3, <2>4, <2>5 DEF Indexes
<1>2. Indexes /\ [Next]_vars => Indexes'
  <2> SUFFICES ASSUME Indexes, [Next]_vars PROVE Indexes'
    OBVIOUS
  <2>1. CASE UNCHANGED refs
    BY <2>1, SameRefs
  <2>2. CASE BuildXrefs
    BY <2>2, AddXrefsKeeps, BagsOfSets DEF BuildXrefs
  <2>3. CASE FindStringRefs
    BY <2>3, AddXrefsKeeps, BagsOfSets DEF FindStringRefs
  <2>4. ASSUME NEW b \in left, TailCall(b) PROVE Indexes'
    BY <2>4, TailCallKeeps
  <2>5. ASSUME NEW f \in left, Dataflow(f) PROVE Indexes'
    BY <2>5, AddXrefsKeeps, BagsOfSets DEF Dataflow
  <2>6. CASE UNCHANGED vars
    BY <2>1, <2>6 DEF vars
  <2>7. CASE BuildCfgs \/ RemoveJunk \/ DetectSwitches \/ FindStrings \/ DetectVtables
             \/ DetectGlobals \/ DetectNoReturn \/ EndTailCalls \/ CallingConventions
    BY <2>1, <2>7 DEF BuildCfgs, RemoveJunk, DetectSwitches, FindStrings, DetectVtables,
         DetectGlobals, DetectNoReturn, EndTailCalls, CallingConventions
  <2>8. CASE EndDataflow \/ DetectLoops \/ RecoverStructs \/ Signatures \/ PopulateData
             \/ ApplyNames \/ DetectMain
    BY <2>1, <2>8 DEF EndDataflow, DetectLoops, RecoverStructs, Signatures, PopulateData,
         ApplyNames, DetectMain
  <2> QED  BY <2>2, <2>3, <2>4, <2>5, <2>6, <2>7, <2>8 DEF Next
<1> QED  BY <1>1, <1>2, PTL DEF Spec

(* The list of references and the two tables by their ends say the same, each *)
(* reference as often and with the same type, after every pass.             *)
THEOREM IndexesAgree == Spec => []XrefIndexesAgree
<1>1. Indexes => XrefIndexesAgree
  <2> SUFFICES ASSUME Indexes PROVE XrefIndexesAgree
    OBVIOUS
  <2>0. /\ \A x \in DOMAIN xrefs : x.to \in DOMAIN xrefsTo /\ x.from \in DOMAIN xrefsFrom
        /\ \A a \in DOMAIN xrefsTo : xrefsTo[a] = [x \in {y \in DOMAIN xrefs : y.to = a} |-> xrefs[x]]
        /\ \A a \in DOMAIN xrefsFrom :
             xrefsFrom[a] = [x \in {y \in DOMAIN xrefs : y.from = a} |-> xrefs[x]]
    <3> DEFINE T == ToEnds(xrefs)
               F == FromEnds(xrefs)
    <3>1. \A x \in DOMAIN xrefs : T[x] = x.to /\ F[x] = x.from
      BY DEF ToEnds, FromEnds
    <3> HIDE DEF T, F
    <3>2. IsIndex(xrefsTo, xrefs, T) /\ IsIndex(xrefsFrom, xrefs, F)
      BY DEF Indexes, T, F
    <3>3. \A a : /\ {y \in DOMAIN xrefs : y.to = a} = {y \in DOMAIN xrefs : T[y] = a}
                 /\ {y \in DOMAIN xrefs : y.from = a} = {y \in DOMAIN xrefs : F[y] = a}
      BY <3>1
    <3> QED  BY <3>1, <3>2, <3>3 DEF IsIndex, Part
  <2>1. ASSUME NEW x \in DOMAIN xrefs
        PROVE  /\ x.to \in DOMAIN xrefsTo /\ x \in DOMAIN xrefsTo[x.to]
               /\ xrefsTo[x.to][x] = xrefs[x]
               /\ x.from \in DOMAIN xrefsFrom /\ x \in DOMAIN xrefsFrom[x.from]
               /\ xrefsFrom[x.from][x] = xrefs[x]
    <3>1. x.to \in DOMAIN xrefsTo /\ x.from \in DOMAIN xrefsFrom
      BY <2>0
    <3>2. /\ xrefsTo[x.to] = [z \in {y \in DOMAIN xrefs : y.to = x.to} |-> xrefs[z]]
          /\ xrefsFrom[x.from] = [z \in {y \in DOMAIN xrefs : y.from = x.from} |-> xrefs[z]]
      BY <2>0, <3>1
    <3> QED  BY <3>1, <3>2
  <2>2. ASSUME NEW a \in DOMAIN xrefsTo PROVE DOMAIN xrefsTo[a] \subseteq DOMAIN xrefs
    <3>1. xrefsTo[a] = [x \in {y \in DOMAIN xrefs : y.to = a} |-> xrefs[x]]
      BY <2>0
    <3> QED  BY <3>1
  <2>3. ASSUME NEW a \in DOMAIN xrefsFrom PROVE DOMAIN xrefsFrom[a] \subseteq DOMAIN xrefs
    <3>1. xrefsFrom[a] = [x \in {y \in DOMAIN xrefs : y.from = a} |-> xrefs[x]]
      BY <2>0
    <3> QED  BY <3>1
  <2> QED  BY <2>1, <2>2, <2>3 DEF XrefIndexesAgree
<1> QED  BY <1>1, IndexesHold, PTL
----------------------------------------------------------------------------
(* Functions defined by recursion over 0..n.  Such a function exists, and what *)
(* each step keeps holds of all its values.                                 *)
LEMMA SetInduction ==
  ASSUME NEW S, 0 \in S, \A n \in Nat : n \in S => n + 1 \in S
  PROVE  Nat \subseteq S
<1> DEFINE R == {ss \in Nat \X Nat : ss[1] < ss[2]}
<1> SUFFICES ASSUME Nat \ S # {} PROVE FALSE
  OBVIOUS
<1>1. IsWellFoundedOn(R, Nat)
  BY NatLessThanWellFounded DEF OpToRel
<1>2. \E x \in Nat \ S : \A y \in Nat \ S : ~ (<<y, x>> \in R)
  <2>1. Nat \ S \subseteq Nat
    OBVIOUS
  <2> HIDE DEF R
  <2> QED  BY <1>1, <2>1, WFMin
<1>3. PICK x \in Nat \ S : \A y \in Nat \ S : ~ (<<y, x>> \in R)
  BY <1>2
<1>4. x # 0 /\ x - 1 \in Nat
  OBVIOUS
<1>5. <<x - 1, x>> \in R
  BY <1>4
<1>6. x - 1 \in S
  BY <1>3, <1>4, <1>5
<1> QED  BY <1>4, <1>6

LEMMA StepsKeep ==
  ASSUME NEW n \in Nat, NEW st, NEW X, st[0] \in X,
         \A m \in 1..n : st[m - 1] \in X => st[m] \in X
  PROVE  \A m \in 0..n : st[m] \in X
<1> DEFINE S == {m \in Nat : m <= n => st[m] \in X}
<1>1. 0 \in S
  OBVIOUS
<1>2. ASSUME NEW m \in Nat, m \in S PROVE m + 1 \in S
  <2> SUFFICES ASSUME m + 1 <= n PROVE st[m + 1] \in X
    OBVIOUS
  <2>1. m <= n /\ m + 1 \in 1..n /\ (m + 1) - 1 = m
    OBVIOUS
  <2> QED  BY <1>2, <2>1
<1> HIDE DEF S
<1>3. Nat \subseteq S
  BY <1>1, <1>2, SetInduction
<1> QED  BY <1>3 DEF S

\* the function whose n-th value is F[n] of the one before
IsSteps(g, n, x0, F) == g = [m \in 0..n |-> IF m = 0 THEN x0 ELSE F[m][g[m - 1]]]

LEMMA StepsExist ==
  ASSUME NEW x0, NEW F
  PROVE  \A n \in Nat : \E g : IsSteps(g, n, x0, F)
<1> DEFINE S == {n \in Nat : \E g : IsSteps(g, n, x0, F)}
<1>1. 0 \in S
  <2> DEFINE g == [m \in 0..0 |-> x0]
  <2>1. IsSteps(g, 0, x0, F)
    BY DEF IsSteps
  <2> QED  BY <2>1
<1>2. ASSUME NEW n \in Nat, n \in S PROVE n + 1 \in S
  <2>1. PICK f : IsSteps(f, n, x0, F)
    BY <1>2
  <2> DEFINE g == [m \in 0..(n + 1) |-> IF m = n + 1 THEN F[m][f[n]] ELSE f[m]]
  <2>2. g = [m \in 0..(n + 1) |-> IF m = 0 THEN x0 ELSE F[m][g[m - 1]]]
    <3> SUFFICES ASSUME NEW m \in 0..(n + 1) PROVE g[m] = IF m = 0 THEN x0 ELSE F[m][g[m - 1]]
      OBVIOUS
    <3>1. CASE m = n + 1
      <4>1. g[m - 1] = f[n] /\ g[m] = F[m][f[n]] /\ m # 0
        BY <3>1
      <4> QED  BY <4>1
    <3>2. CASE m # n + 1 /\ m # 0
      <4>1. m \in 0..n /\ m - 1 \in 0..(n + 1) /\ m - 1 # n + 1
        BY <3>2
      <4>2. g[m] = f[m] /\ g[m - 1] = f[m - 1]
        BY <3>2, <4>1
      <4>3. f[m] = F[m][f[m - 1]]
        BY <2>1, <3>2, <4>1 DEF IsSteps
      <4> QED  BY <3>2, <4>2, <4>3
    <3>3. CASE m = 0
      <4>1. g[m] = f[0] /\ f[0] = x0
        BY <2>1, <3>3 DEF IsSteps
      <4> QED  BY <3>3, <4>1
    <3> QED  BY <3>1, <3>2, <3>3
  <2> HIDE DEF g
  <2>3. IsSteps(g, n + 1, x0, F)
    BY <2>2 DEF IsSteps
  <2> QED  BY <2>3
<1> HIDE DEF S
<1>3. Nat \subseteq S
  BY <1>1, <1>2, SetInduction
<1> QED  BY <1>3 DEF S

\* the values stay in X, where F is the step
LEMMA StepsIn ==
  ASSUME NEW n \in Nat, NEW X, NEW x0 \in X, NEW F,
         \A m \in 1..n : \A x \in X : F[m][x] \in X
  PROVE  \E g \in [0..n -> X] : IsSteps(g, n, x0, F)
<1>1. PICK g : IsSteps(g, n, x0, F)
  BY StepsExist
<1>2. g[0] = x0 /\ \A m \in 1..n : g[m] = F[m][g[m - 1]]
  BY <1>1 DEF IsSteps
<1>3. \A m \in 0..n : g[m] \in X
  BY <1>2, StepsKeep
<1>4. g = [m \in 0..n |-> g[m]]
  BY <1>1 DEF IsSteps
<1> QED  BY <1>1, <1>3, <1>4
----------------------------------------------------------------------------
(* The blocks of a function.  A block lists its instructions in the order of  *)
(* their addresses and ends behind them; blocks are finitely many, and each is *)
(* listed once, in the order in which they were found.                      *)
Rising(list, end) ==
  /\ \A k \in 1..Len(list) : list[k] < end
  /\ \A j \in 1..Len(list), k \in 1..Len(list) : j < k => list[j] < list[k]
Blocks == {b \in [list : Seq(Nat), end : Nat, succs : Seq(Nat), done : BOOLEAN] :
             Rising(b.list, b.end)}
Lists(order, S) ==
  /\ order \in Seq(Nat)
  /\ \A s \in S : \E k \in 1..Len(order) : order[k] = s
  /\ \A k \in 1..Len(order) : order[k] \in S
  /\ \A j \in 1..Len(order), k \in 1..Len(order) : j < k => order[j] # order[k]
Tables == UNION {[S -> Blocks] : S \in SUBSET Nat}
Graphs == {g \in [blocks : Tables, order : Seq(Nat), queue : Seq(Nat)] :
             IsFiniteSet(DOMAIN g.blocks) /\ Lists(g.order, DOMAIN g.blocks)}

Decoded == prog \in Programs /\ insns = DOMAIN prog.insns

LEMMA SuccessorsAre ==
  ASSUME NEW i, NEW next \in Nat, i.to \in Nat
  PROVE  Successors(i, next) \in Seq(Nat)
<1>1. <<i.to>> \in Seq(Nat) /\ <<next>> \in Seq(Nat) /\ <<>> \in Seq(Nat)
  OBVIOUS
<1>2. (IF i.to # 0 THEN <<i.to>> ELSE <<>>) \o <<next>> \in Seq(Nat)
  BY <1>1
<1> QED  BY <1>1, <1>2 DEF Successors

LEMMA ExtendedIsBlock ==
  ASSUME Decoded, NEW b \in Blocks, NEW entry
  PROVE  Extended(b, entry) \in Blocks
<1>1. CASE b.done \/ b.end \notin insns
  BY <1>1 DEF Extended
<1>2. CASE ~ (b.done \/ b.end \notin insns)
  <2> DEFINE i == Insn(b.end)
             next == b.end + i.len
             list == Append(b.list, b.end)
             done == (i.kind \in {"ret", "jmp", "jcc"}) \/ (next # entry /\ next \in Funcs)
  <2>1. b.list \in Seq(Nat) /\ b.end \in Nat /\ Rising(b.list, b.end)
    BY DEF Blocks
  <2>2. i.len \in Nat \ {0} /\ i.to \in Nat
    BY <1>2, ProgramAssumption DEF Decoded, Insn
  <2>3. next \in Nat /\ b.end < next
    BY <2>1, <2>2
  <2>4. Successors(i, next) \in Seq(Nat)
    BY <2>2, <2>3, SuccessorsAre
  <2>5. list \in Seq(Nat) /\ Len(list) = Len(b.list) + 1 /\ list[Len(b.list) + 1] = b.end
        /\ \A k \in 1..Len(b.list) : list[k] = b.list[k] /\ b.list[k] \in Nat
    BY <2>1
  <2>6. Extended(b, entry) = [list |-> list, end |-> next, succs |-> Successors(i, next), done |-> done]
    BY <1>2 DEF Extended
  <2>7. done \in BOOLEAN
    OBVIOUS
  <2> HIDE DEF i, next, list, done
  <2>8. Rising(list, next)
    <3>0. Len(b.list) \in Nat
      BY <2>1
    <3>1. ASSUME NEW k \in 1..Len(list) PROVE list[k] < next
      <4>1. CASE k = Len(b.list) + 1
        BY <2>3, <2>5, <4>1
      <4>2. CASE k # Len(b.list) + 1
        <5>1. k \in 1..Len(b.list)
          BY <2>5, <3>0, <4>2
        <5>2. b.list[k] < b.end /\ list[k] = b.list[k] /\ b.list[k] \in Nat
          BY <2>1, <2>5, <5>1 DEF Rising
        <5> QED  BY <2>1, <2>3, <5>2
      <4> QED  BY <4>1, <4>2
    <3>2. ASSUME NEW j \in 1..Len(list), NEW k \in 1..Len(list), j < k PROVE list[j] < list[k]
      <4>1. j \in 1..Len(b.list)
        BY <2>1, <2>5, <3>2
      <4>2. CASE k = Len(b.list) + 1
        BY <2>1, <2>5, <4>1, <4>2 DEF Rising
      <4>3. CASE k # Len(b.list) + 1
        <5>1. k \in 1..Len(b.list)
          BY <2>1, <2>5, <4>3
        <5> QED  BY <2>1, <2>5, <3>2, <4>1, <5>1 DEF Rising
      <4> QED  BY <4>2, <4>3
    <3> QED  BY <3>1, <3>2 DEF Rising
  <2>9. [list |-> list, end |-> next, succs |-> Successors(i, next), done |-> done]
          \in [list : Seq(Nat), end : Nat, succs : Seq(Nat), done : BOOLEAN]
    BY <2>3, <2>4, <2>5, <2>7
  <2> QED  BY <2>6, <2>8, <2>9 DEF Blocks
<1> QED  BY <1>1, <1>2

LEMMA BlockIsBlock ==
  ASSUME Decoded, NEW start \in Nat, NEW entry
  PROVE  Block(start, entry) \in Blocks
<1> DEFINE most == Cardinality(insns)
           none == [list |-> <<>>, end |-> start, succs |-> <<>>, done |-> FALSE]
           Is(st) == st = [n \in 0..most |-> IF n = 0 THEN none ELSE Extended(st[n - 1], entry)]
           st == CHOOSE s : Is(s)
           F == [m \in 1..most |-> [b \in Blocks |-> Extended(b, entry)]]
<1>1. most \in Nat
  BY ProgramAssumption, FS_CardinalityType DEF Decoded
<1>2. none \in Blocks
  <2>1. <<>> \in Seq(Nat) /\ Len(<<>>) = 0
    OBVIOUS
  <2>2. Rising(<<>>, start)
    BY <2>1 DEF Rising
  <2> QED  BY <2>1, <2>2 DEF Blocks
<1>3. Block(start, entry) = st[most]
  BY DEF Block
<1> HIDE DEF most, none
<1>4. \E s : Is(s)
  <2>1. \A m \in 1..most : \A x \in Blocks : F[m][x] \in Blocks /\ F[m][x] = Extended(x, entry)
    BY ExtendedIsBlock
  <2> HIDE DEF F
  <2>2. PICK g \in [0..most -> Blocks] : IsSteps(g, most, none, F)
    BY <1>1, <1>2, <2>1, StepsIn
  <2>3. \A m \in 0..most : m # 0 => F[m][g[m - 1]] = Extended(g[m - 1], entry)
    <3> SUFFICES ASSUME NEW m \in 0..most, m # 0 PROVE F[m][g[m - 1]] = Extended(g[m - 1], entry)
      OBVIOUS
    <3>1. m \in 1..most /\ m - 1 \in 0..most
      BY <1>1
    <3>2. g[m - 1] \in Blocks
      BY <2>2, <3>1
    <3> QED  BY <2>1, <3>1, <3>2
  <2>4. Is(g)
    BY <2>2, <2>3 DEF IsSteps
  <2> QED  BY <2>4
<1>5. Is(st)
  BY <1>4
<1> HIDE DEF st
<1>6. st[0] \in Blocks
  BY <1>1, <1>2, <1>5
<1>7. ASSUME NEW m \in 1..most, st[m - 1] \in Blocks PROVE st[m] \in Blocks
  <2>1. st[m] = Extended(st[m - 1], entry)
    BY <1>1, <1>5
  <2> QED  BY <1>7, <2>1, ExtendedIsBlock
<1>8. \A m \in 0..most : st[m] \in Blocks
  BY <1>1, <1>6, <1>7, StepsKeep
<1> QED  BY <1>1, <1>3, <1>8

LEMMA ListsMore ==
  ASSUME NEW order, NEW S, NEW h \in Nat, h \notin S, Lists(order, S)
  PROVE  Lists(Append(order, h), S \cup {h})
<1> DEFINE new == Append(order, h)
           n == Len(order)
<1>1. new \in Seq(Nat) /\ n \in Nat /\ Len(new) = n + 1 /\ new[n + 1] = h
      /\ \A k \in 1..n : new[k] = order[k]
  BY DEF Lists
<1> HIDE DEF new, n
<1>2. ASSUME NEW s \in S \cup {h} PROVE \E k \in 1..Len(new) : new[k] = s
  <2>1. CASE s = h
    BY <1>1, <2>1
  <2>2. CASE s \in S
    <3>1. PICK k \in 1..n : order[k] = s
      BY <2>2 DEF Lists, n
    <3> QED  BY <1>1, <3>1
  <2> QED  BY <2>1, <2>2
<1>3. ASSUME NEW k \in 1..Len(new) PROVE new[k] \in S \cup {h}
  <2>1. k = n + 1 \/ k \in 1..n
    BY <1>1
  <2> QED  BY <1>1, <2>1 DEF Lists, n
<1>4. ASSUME NEW j \in 1..Len(new), NEW k \in 1..Len(new), j < k PROVE new[j] # new[k]
  <2>1. j \in 1..n /\ new[j] = order[j] /\ order[j] \in S
    BY <1>1, <1>4 DEF Lists, n
  <2>2. CASE k = n + 1
    BY <1>1, <2>1, <2>2
  <2>3. CASE k # n + 1
    <3>1. k \in 1..n /\ new[k] = order[k]
      BY <1>1, <2>3
    <3> QED  BY <1>4, <2>1, <3>1 DEF Lists, n
  <2> QED  BY <2>2, <2>3
<1>5. Lists(new, S \cup {h})
  BY <1>1, <1>2, <1>3, <1>4 DEF Lists
<1> QED  BY <1>5 DEF new

LEMMA VisitedIsGraph ==
  ASSUME Decoded, NEW g \in Graphs, NEW entry
  PROVE  Visited(g, entry) \in Graphs
<1>0. /\ g.blocks \in Tables /\ g.order \in Seq(Nat) /\ g.queue \in Seq(Nat)
      /\ IsFiniteSet(DOMAIN g.blocks) /\ Lists(g.order, DOMAIN g.blocks)
  BY DEF Graphs
<1>1. CASE g.queue = <<>>
  BY <1>1 DEF Visited
<1>2. CASE g.queue # <<>> /\ Head(g.queue) \in DOMAIN g.blocks
  <2>1. Visited(g, entry) = [g EXCEPT !.queue = Tail(@)]
    BY <1>2 DEF Visited
  <2>2. Tail(g.queue) \in Seq(Nat)
    BY <1>0, <1>2
  <2>3. [g EXCEPT !.queue = Tail(@)] \in Graphs
    BY <2>2 DEF Graphs
  <2> QED  BY <2>1, <2>3
<1>3. CASE g.queue # <<>> /\ Head(g.queue) \notin DOMAIN g.blocks
  <2> DEFINE h == Head(g.queue)
             b == Block(h, entry)
             blocks == With(g.blocks, h, b)
             order == Append(g.order, h)
             queue == Tail(g.queue) \o b.succs
  <2>1. h \in Nat /\ Tail(g.queue) \in Seq(Nat)
    BY <1>0, <1>3
  <2>2. b \in Blocks
    BY <2>1, BlockIsBlock
  <2>3. b.succs \in Seq(Nat)
    BY <2>2 DEF Blocks
  <2>4. Visited(g, entry) = [blocks |-> blocks, order |-> order, queue |-> queue]
    BY <1>3 DEF Visited
  <2> HIDE DEF b
  <2>5. queue \in Seq(Nat)
    BY <2>1, <2>3
  <2> HIDE DEF h, queue
  <2>6. DOMAIN blocks = DOMAIN g.blocks \cup {h}
    BY DEF With
  <2>7. PICK S \in SUBSET Nat : g.blocks \in [S -> Blocks]
    BY <1>0 DEF Tables
  <2>8. blocks \in [S \cup {h} -> Blocks]
    <3>1. DOMAIN g.blocks = S /\ \A s \in S : g.blocks[s] \in Blocks
      BY <2>7
    <3>2. blocks = [s \in S \cup {h} |-> IF s = h THEN b ELSE g.blocks[s]]
      BY <3>1 DEF With
    <3>3. \A s \in S \cup {h} : (IF s = h THEN b ELSE g.blocks[s]) \in Blocks
      BY <2>2, <3>1
    <3> QED  BY <3>2, <3>3
  <2> HIDE DEF blocks
  <2>9. blocks \in Tables
    <3>1. S \cup {h} \in SUBSET Nat
      BY <2>1, <2>7 DEF h
    <3> QED  BY <2>8, <3>1 DEF Tables
  <2>10. IsFiniteSet(DOMAIN blocks)
    <3> DEFINE D == DOMAIN g.blocks
    <3> HIDE DEF D
    <3>1. IsFiniteSet(D)
      BY <1>0 DEF D
    <3>2. IsFiniteSet(D \cup {h})
      BY <3>1, FS_AddElement
    <3> QED  BY <2>6, <3>2 DEF D
  <2>11. Lists(order, DOMAIN blocks)
    BY <1>0, <1>3, <2>1, <2>6, ListsMore DEF h
  <2>12. order \in Seq(Nat)
    BY <2>11 DEF Lists
  <2> HIDE DEF order
  <2> QED  BY <2>4, <2>5, <2>9, <2>10, <2>11, <2>12 DEF Graphs
<1> QED  BY <1>1, <1>2, <1>3

LEMMA BlocksAreGraph ==
  ASSUME Decoded, NEW entry \in Nat
  PROVE  BlocksOf(entry) \in Graphs
<1> DEFINE most == 2 * Cardinality(insns) + 1
           none == [blocks |-> <<>>, order |-> <<>>, queue |-> <<entry>>]
           Is(st) == st = [n \in 0..most |-> IF n = 0 THEN none ELSE Visited(st[n - 1], entry)]
           st == CHOOSE s : Is(s)
           F == [m \in 1..most |-> [g \in Graphs |-> Visited(g, entry)]]
<1>1. most \in Nat
  <2>1. Cardinality(insns) \in Nat
    BY ProgramAssumption, FS_CardinalityType DEF Decoded
  <2> QED  BY <2>1
<1>2. none \in Graphs
  <2>1. <<>> \in Seq(Nat) /\ <<entry>> \in Seq(Nat) /\ Len(<<>>) = 0 /\ DOMAIN <<>> = {}
    OBVIOUS
  <2>2. <<>> \in [{} -> Blocks]
    OBVIOUS
  <2>3. <<>> \in Tables
    BY <2>2 DEF Tables
  <2>4. IsFiniteSet({})
    BY FS_EmptySet
  <2>5. Lists(<<>>, {})
    BY <2>1 DEF Lists
  <2> QED  BY <2>1, <2>3, <2>4, <2>5 DEF Graphs
<1>3. BlocksOf(entry) = st[most]
  BY DEF BlocksOf
<1> HIDE DEF most, none
<1>4. \E s : Is(s)
  <2>1. \A m \in 1..most : \A x \in Graphs : F[m][x] \in Graphs /\ F[m][x] = Visited(x, entry)
    BY VisitedIsGraph
  <2> HIDE DEF F
  <2>2. PICK g \in [0..most -> Graphs] : IsSteps(g, most, none, F)
    BY <1>1, <1>2, <2>1, StepsIn
  <2>3. \A m \in 0..most : m # 0 => F[m][g[m - 1]] = Visited(g[m - 1], entry)
    <3> SUFFICES ASSUME NEW m \in 0..most, m # 0 PROVE F[m][g[m - 1]] = Visited(g[m - 1], entry)
      OBVIOUS
    <3>1. m \in 1..most /\ m - 1 \in 0..most
      BY <1>1
    <3>2. g[m - 1] \in Graphs
      BY <2>2, <3>1
    <3> QED  BY <2>1, <3>1, <3>2
  <2>4. Is(g)
    BY <2>2, <2>3 DEF IsSteps
  <2> QED  BY <2>4
<1>5. Is(st)
  BY <1>4
<1> HIDE DEF st
<1>6. st[0] \in Graphs
  BY <1>1, <1>2, <1>5
<1>7. ASSUME NEW m \in 1..most, st[m - 1] \in Graphs PROVE st[m] \in Graphs
  <2>1. st[m] = Visited(st[m - 1], entry)
    BY <1>1, <1>5
  <2> QED  BY <1>7, <2>1, VisitedIsGraph
<1>8. \A m \in 0..most : st[m] \in Graphs
  BY <1>1, <1>6, <1>7, StepsKeep
<1> QED  BY <1>1, <1>3, <1>8

(* What is known of the graph of a function once it is built: a table of jumps *)
(* only adds successors.                                                    *)
Graph(c) ==
  /\ DOMAIN c = {"order", "blocks"}
  /\ IsFiniteSet(DOMAIN c.blocks) /\ DOMAIN c.blocks \subseteq Nat
  /\ Lists(c.order, DOMAIN c.blocks)
  /\ \A s \in DOMAIN c.blocks :
       /\ DOMAIN c.blocks[s] = {"list", "end", "succs", "preds"}
       /\ c.blocks[s].list \in Seq(Nat)
       /\ Rising(c.blocks[s].list, c.blocks[s].end)
Flow ==
  /\ prog \in Programs
  /\ pass = "cfgs" => insns = DOMAIN prog.insns
  /\ pass # "cfgs" => DOMAIN cfg = Funcs /\ \A f \in Funcs : Graph(cfg[f])

LEMMA BuildCfgsKeeps == Flow /\ BuildCfgs => Flow'
<1> SUFFICES ASSUME Flow, BuildCfgs PROVE Flow'
  OBVIOUS
<1>1. Decoded /\ pass' # "cfgs" /\ prog' = prog /\ Funcs' = Funcs
  BY DEF Flow, BuildCfgs, Decoded, Funcs
<1>2. ASSUME NEW f \in Funcs PROVE Graph(cfg'[f])
  <2> DEFINE g == BlocksOf(f)
             blocks == [s \in DOMAIN g.blocks |->
                          [list |-> g.blocks[s].list, end |-> g.blocks[s].end,
                           succs |-> g.blocks[s].succs,
                           preds |-> {p \in DOMAIN g.blocks : s \in ToSet(g.blocks[p].succs)}]]
  <2>1. f \in Nat
    BY <1>1, ProgramAssumption DEF Funcs, Decoded
  <2>2. g \in Graphs
    BY <1>1, <2>1, BlocksAreGraph
  <2>3. cfg'[f] = [order |-> g.order, blocks |-> blocks]
    BY DEF BuildCfgs
  <2> HIDE DEF g
  <2>4. g.blocks \in Tables /\ IsFiniteSet(DOMAIN g.blocks) /\ Lists(g.order, DOMAIN g.blocks)
    BY <2>2 DEF Graphs
  <2>5. PICK S \in SUBSET Nat : g.blocks \in [S -> Blocks]
    BY <2>4 DEF Tables
  <2>6. \A s \in DOMAIN g.blocks : g.blocks[s] \in Blocks
    BY <2>5
  <2>7. ASSUME NEW s \in DOMAIN g.blocks
        PROVE  /\ DOMAIN blocks[s] = {"list", "end", "succs", "preds"}
               /\ blocks[s].list \in Seq(Nat) /\ Rising(blocks[s].list, blocks[s].end)
    <3>1. g.blocks[s].list \in Seq(Nat) /\ Rising(g.blocks[s].list, g.blocks[s].end)
      BY <2>6 DEF Blocks
    <3>2. DOMAIN blocks[s] = {"list", "end", "succs", "preds"}
          /\ blocks[s].list = g.blocks[s].list /\ blocks[s].end = g.blocks[s].end
      OBVIOUS
    <3> QED  BY <3>1, <3>2
  <2>8. DOMAIN blocks = DOMAIN g.blocks /\ DOMAIN g.blocks \subseteq Nat
    BY <2>5
  <2> HIDE DEF blocks
  <2>9. DOMAIN cfg'[f] = {"order", "blocks"} /\ cfg'[f].blocks = blocks /\ cfg'[f].order = g.order
    BY <2>3
  <2> QED  BY <2>4, <2>7, <2>8, <2>9 DEF Graph
<1>3. DOMAIN cfg' = Funcs
  BY DEF BuildCfgs
<1> QED  BY <1>1, <1>2, <1>3 DEF Flow, Decoded

LEMMA SwitchesKeep == Flow /\ DetectSwitches => Flow'
<1> SUFFICES ASSUME Flow, DetectSwitches PROVE Flow'
  OBVIOUS
<1>1. pass # "cfgs" /\ pass' # "cfgs" /\ prog' = prog /\ Funcs' = Funcs
  BY DEF DetectSwitches, Funcs
<1>2. \A f \in Funcs : Graph(cfg[f])
  BY <1>1 DEF Flow
<1> DEFINE jumps == {b \in AllBlocks : EndsInJump(b)}
<1>3. PICK cases : cfg' = [f \in Funcs |-> [cfg[f] EXCEPT !.blocks = [s \in DOMAIN @ |->
                         IF <<f, s>> \in jumps
                         THEN LeadsTo(@[s], Targets(<<f, s>>, cases[<<f, s>>]))
                         ELSE @[s]]]]
  BY DEF DetectSwitches
<1> HIDE DEF jumps
<1>4. ASSUME NEW f \in Funcs PROVE Graph(cfg'[f])
  <2> DEFINE old == cfg[f].blocks
             more(s) == Targets(<<f, s>>, cases[<<f, s>>])
             blocks == [s \in DOMAIN old |->
                          IF <<f, s>> \in jumps THEN LeadsTo(old[s], more(s))
                          ELSE old[s]]
  <2>1. Graph(cfg[f])
    BY <1>2
  <2>2. cfg'[f] = [cfg[f] EXCEPT !.blocks = blocks]
    BY <1>3
  <2>3. ASSUME NEW s \in DOMAIN old
        PROVE  /\ DOMAIN blocks[s] = {"list", "end", "succs", "preds"}
               /\ blocks[s].list = old[s].list /\ blocks[s].end = old[s].end
    <3> DEFINE r == old[s]
               t == more(s)
    <3>1. DOMAIN r = {"list", "end", "succs", "preds"}
      BY <2>1 DEF Graph
    <3>2. blocks[s] = IF <<f, s>> \in jumps THEN LeadsTo(r, t) ELSE r
      OBVIOUS
    <3> HIDE DEF r, t
    <3>3. /\ DOMAIN [r EXCEPT !.succs = @ \o t] = DOMAIN r
          /\ [r EXCEPT !.succs = @ \o t].list = r.list
          /\ [r EXCEPT !.succs = @ \o t].end = r.end
      BY <3>1
    <3>4. blocks[s] = [r EXCEPT !.succs = @ \o t] \/ blocks[s] = r
      BY <3>2 DEF LeadsTo
    <3> HIDE DEF blocks
    <3> QED  BY <3>1, <3>3, <3>4 DEF r
  <2>4. DOMAIN blocks = DOMAIN old
    OBVIOUS
  <2> HIDE DEF blocks
  <2>5. DOMAIN cfg'[f] = {"order", "blocks"} /\ cfg'[f].blocks = blocks
        /\ cfg'[f].order = cfg[f].order
    BY <2>1, <2>2 DEF Graph
  <2> QED  BY <2>1, <2>3, <2>4, <2>5 DEF Graph
<1>5. DOMAIN cfg' = Funcs
  BY <1>3
<1> QED  BY <1>1, <1>4, <1>5 DEF Flow

THEOREM FlowHolds == Spec => []Flow
<1>1. Init => Flow
  BY DEF Init, Flow
<1>2. Flow /\ [Next]_vars => Flow'
  <2> SUFFICES ASSUME Flow, [Next]_vars PROVE Flow'
    OBVIOUS
  <2>0. ASSUME UNCHANGED <<prog, cfg>>, pass' = "cfgs" => pass = "cfgs" /\ UNCHANGED insns,
               pass = "cfgs" => pass' = "cfgs"
        PROVE  Flow'
    BY <2>0 DEF Flow, Funcs
  <2>1. CASE BuildCfgs
    BY <2>1, BuildCfgsKeeps
  <2>2. CASE DetectSwitches
    BY <2>2, SwitchesKeep
  <2>3. CASE UNCHANGED vars
    BY <2>0, <2>3 DEF vars, code
  <2>4. CASE RemoveJunk \/ BuildXrefs \/ FindStrings \/ FindStringRefs \/ DetectVtables
             \/ DetectGlobals \/ DetectNoReturn \/ EndTailCalls \/ CallingConventions
    BY <2>0, <2>4 DEF RemoveJunk, BuildXrefs, FindStrings, FindStringRefs, DetectVtables,
         DetectGlobals, DetectNoReturn, EndTailCalls, CallingConventions, code
  <2>5. CASE EndDataflow \/ DetectLoops \/ RecoverStructs \/ Signatures \/ PopulateData
             \/ ApplyNames \/ DetectMain
    BY <2>0, <2>5 DEF EndDataflow, DetectLoops, RecoverStructs, Signatures, PopulateData,
         ApplyNames, DetectMain, code
  <2>6. ASSUME NEW b \in left, TailCall(b) PROVE Flow'
    BY <2>0, <2>6 DEF TailCall, code
  <2>7. ASSUME NEW f \in left, Dataflow(f) PROVE Flow'
    BY <2>0, <2>7 DEF Dataflow, code
  <2> QED  BY <2>1, <2>2, <2>3, <2>4, <2>5, <2>6, <2>7 DEF Next
<1> QED  BY <1>1, <1>2, PTL DEF Spec
----------------------------------------------------------------------------
(* Loops.  An edge that is not recorded leads to a block behind, and among    *)
(* finitely many blocks one has none behind it.                             *)
BackEdges ==
  \A f \in Funcs : \A s \in DOMAIN cfg[f].blocks :
    \A t \in ToSet(cfg[f].blocks[s].succs) :
      (t <= s /\ t \in DOMAIN cfg[f].blocks) => [func |-> f, header |-> t, from |-> s] \in loops

LEMMA FiniteHasLast ==
  ASSUME NEW S, IsFiniteSet(S), S \subseteq Nat, S # {}
  PROVE  \E x \in S : \A y \in S : y <= x
<1> DEFINE P == {T \in SUBSET Nat : T = {} \/ \E x \in T : \A y \in T : y <= x}
<1>1. PICK seq \in Seq(S) : \A s \in S : \E n \in 1..Len(seq) : seq[n] = s
  BY DEF IsFiniteSet
<1> DEFINE n == Len(seq)
           to == [k \in 0..n |-> {seq[j] : j \in 1..k}]
<1>2. n \in Nat /\ \A j \in 1..n : seq[j] \in S
  OBVIOUS
<1> HIDE DEF n
<1>3. to[0] \in P
  BY <1>2
<1>4. ASSUME NEW k \in 1..n, to[k - 1] \in P PROVE to[k] \in P
  <2>1. to[k] = to[k - 1] \cup {seq[k]} /\ seq[k] \in Nat
    <3>1. k - 1 \in 0..n /\ k \in 0..n
      BY <1>2
    <3>2. 1..k = 1..(k - 1) \cup {k}
      BY <3>1
    <3>3. {seq[j] : j \in 1..k} = {seq[j] : j \in 1..(k - 1)} \cup {seq[k]}
      BY <3>2
    <3> QED  BY <1>2, <3>1, <3>3
  <2> HIDE DEF to
  <2>2. to[k] \in SUBSET Nat
    BY <1>4, <2>1
  <2>3. CASE to[k - 1] = {}
    BY <2>1, <2>2, <2>3
  <2>4. CASE to[k - 1] # {}
    <3>1. PICK x \in to[k - 1] : \A y \in to[k - 1] : y <= x
      BY <1>4, <2>4
    <3>2. x \in Nat /\ \A y \in to[k - 1] : y \in Nat
      BY <1>4
    <3>3. CASE x <= seq[k]
      <4>1. \A y \in to[k] : y <= seq[k]
        BY <2>1, <3>1, <3>2, <3>3
      <4> QED  BY <2>1, <2>2, <4>1
    <3>4. CASE seq[k] < x
      <4>1. \A y \in to[k] : y <= x
        BY <2>1, <3>1, <3>2, <3>4
      <4> QED  BY <2>1, <2>2, <4>1
    <3> QED  BY <2>1, <3>2, <3>3, <3>4
  <2> QED  BY <2>3, <2>4
<1>5. to[n] \in P
  <2> HIDE DEF to, P
  <2>1. \A k \in 0..n : to[k] \in P
    BY <1>2, <1>3, <1>4, StepsKeep
  <2> QED  BY <1>2, <2>1
<1>6. to[n] = S
  <2>1. to[n] = {seq[j] : j \in 1..n}
    BY <1>2
  <2> HIDE DEF to
  <2>2. {seq[j] : j \in 1..n} = S
    BY <1>1, <1>2 DEF n
  <2> QED  BY <2>1, <2>2
<1> HIDE DEF to
<1> QED  BY <1>5, <1>6

(* No loop of a function is overlooked: when the recorded edges are taken away, *)
(* control cannot come back to a block.                                     *)
THEOREM NoCycleIsMissed == Spec => []CyclesAreFound
<1> DEFINE Found1 == pass = "structs" => BackEdges
<1>1. Init => Found1
  BY DEF Init
<1>2. Flow /\ Found1 /\ [Next]_vars => Found1'
  <2> SUFFICES ASSUME Flow, Found1, [Next]_vars PROVE Found1'
    OBVIOUS
  <2>1. CASE DetectLoops
    <3>1. loops' = UNION {{[func |-> b[1], header |-> t, from |-> b[2]] :
                          t \in {s \in ToSet(At(b).succs) :
                                   Backward(b[2], s) /\ s \in DOMAIN cfg[b[1]].blocks}} :
                         b \in AllBlocks}
          /\ cfg' = cfg /\ prog' = prog
      BY <2>1 DEF DetectLoops, code
    <3>2. ASSUME NEW f \in Funcs, NEW s \in DOMAIN cfg[f].blocks,
                 NEW t \in ToSet(cfg[f].blocks[s].succs),
                 t <= s, t \in DOMAIN cfg[f].blocks
          PROVE  [func |-> f, header |-> t, from |-> s] \in loops'
      <4> DEFINE b == <<f, s>>
      <4>1. b \in AllBlocks
        BY DEF AllBlocks, BlockList
      <4>2. b[1] = f /\ b[2] = s /\ At(b) = cfg[f].blocks[s]
        BY DEF At
      <4>3. t \in {u \in ToSet(At(b).succs) : Backward(b[2], u) /\ u \in DOMAIN cfg[b[1]].blocks}
        BY <3>2, <4>2 DEF Backward
      <4> HIDE DEF b
      <4>4. [func |-> b[1], header |-> t, from |-> b[2]] \in loops'
        <5> DEFINE Heads(c) == {u \in ToSet(At(c).succs) :
                                  Backward(c[2], u) /\ u \in DOMAIN cfg[c[1]].blocks}
                   Edges(c) == {[func |-> c[1], header |-> u, from |-> c[2]] : u \in Heads(c)}
        <5>1. loops' = UNION {Edges(c) : c \in AllBlocks}
          BY <3>1
        <5>2. t \in Heads(b)
          BY <4>3
        <5> HIDE DEF Heads
        <5>3. [func |-> b[1], header |-> t, from |-> b[2]] \in Edges(b)
          BY <5>2
        <5> HIDE DEF Edges
        <5> QED  BY <4>1, <5>1, <5>3
      <4> QED  BY <4>2, <4>4
    <3> QED  BY <3>1, <3>2 DEF BackEdges, Funcs
  <2>2. CASE UNCHANGED vars
    BY <2>2 DEF vars, code, facts, BackEdges, Funcs
  <2>3. CASE BuildCfgs \/ RemoveJunk \/ DetectSwitches \/ BuildXrefs \/ FindStrings
             \/ FindStringRefs \/ DetectVtables \/ DetectGlobals \/ DetectNoReturn
    BY <2>3 DEF BuildCfgs, RemoveJunk, DetectSwitches, BuildXrefs, FindStrings, FindStringRefs,
         DetectVtables, DetectGlobals, DetectNoReturn
  <2>4. CASE EndTailCalls \/ CallingConventions \/ EndDataflow \/ RecoverStructs \/ Signatures
             \/ PopulateData \/ ApplyNames \/ DetectMain
    BY <2>4 DEF EndTailCalls, CallingConventions, EndDataflow, RecoverStructs, Signatures,
         PopulateData, ApplyNames, DetectMain
  <2>5. ASSUME NEW b \in left, TailCall(b) PROVE Found1'
    BY <2>5 DEF TailCall
  <2>6. ASSUME NEW f \in left, Dataflow(f) PROVE Found1'
    BY <2>6 DEF Dataflow
  <2> QED  BY <2>1, <2>2, <2>3, <2>4, <2>5, <2>6 DEF Next
<1>3. Flow /\ Found1 => CyclesAreFound
  <2> SUFFICES ASSUME Flow, BackEdges, pass = "structs", NEW f \in Funcs,
                      NEW C \in SUBSET DOMAIN cfg[f].blocks, C # {},
                      \A s \in C : \E t \in C : /\ t \in ToSet(cfg[f].blocks[s].succs)
                                                /\ [func |-> f, header |-> t, from |-> s] \notin loops
               PROVE  FALSE
    BY DEF CyclesAreFound
  <2>1. Graph(cfg[f])
    BY DEF Flow
  <2>2. IsFiniteSet(C) /\ C \subseteq Nat
    BY <2>1, FS_Subset DEF Graph
  <2>3. PICK s \in C : \A y \in C : y <= s
    BY <2>2, FiniteHasLast
  <2>4. PICK t \in C : /\ t \in ToSet(cfg[f].blocks[s].succs)
                       /\ [func |-> f, header |-> t, from |-> s] \notin loops
    OBVIOUS
  <2> QED  BY <2>3, <2>4 DEF BackEdges
<1> QED  BY <1>1, <1>2, <1>3, FlowHolds, PTL DEF Spec
----------------------------------------------------------------------------
(* The bytes of a section, and the length of a run of zeros.                 *)
LEMMA SectionIs ==
  ASSUME prog \in Programs, NEW sec \in ToSet(prog.sections)
  PROVE  /\ sec.va \in Nat /\ sec.bytes \in Seq(0..7) /\ Size(sec) \in Nat
         /\ \E k \in DOMAIN prog.sections : sec = prog.sections[k]
<1>1. PICK k \in DOMAIN prog.sections : sec = prog.sections[k]
  BY DEF ToSet
<1>2. sec.va \in Nat /\ sec.bytes \in Seq(0..7)
  BY <1>1, ProgramAssumption
<1> QED  BY <1>1, <1>2 DEF Size

LEMMA ByteIs ==
  ASSUME prog \in Programs, NEW sec \in ToSet(prog.sections), NEW a \in Nat, In(sec, a)
  PROVE  Byte(a) \in 0..7
<1> DEFINE s == CHOOSE s \in ToSet(prog.sections) : In(s, a)
<1>1. s \in ToSet(prog.sections) /\ In(s, a)
  OBVIOUS
<1>2. Byte(a) = s.bytes[a - s.va + 1]
  BY DEF Byte
<1> HIDE DEF s
<1>3. s.va \in Nat /\ s.bytes \in Seq(0..7) /\ Size(s) \in Nat
  BY <1>1, SectionIs, Zenon
<1>4. a - s.va + 1 \in 1..Len(s.bytes)
  BY <1>1, <1>3 DEF In, Size
<1>5. s.bytes[a - s.va + 1] \in 0..7
  <2>1. \A bytes \in Seq(0..7) : \A i \in 1..Len(bytes) : bytes[i] \in 0..7
    OBVIOUS
  <2> QED  BY <1>3, <1>4, <2>1, Zenon
<1> QED  BY <1>2, <1>5, Zenon

LEMMA WordIsZero ==
  ASSUME prog \in Programs, NEW a \in Nat, HasBytes(a, PtrSize), Word(a) = 0
  PROVE  Byte(a) = 0 /\ Byte(a + 1) = 0
<1>1. PICK sec \in ToSet(prog.sections) : In(sec, a) /\ a + PtrSize <= sec.va + Size(sec)
  BY DEF HasBytes
<1>2. In(sec, a + 1)
  BY <1>1, SectionIs, ProgramAssumption DEF In
<1>3. Byte(a) \in 0..7 /\ Byte(a + 1) \in 0..7
  BY <1>1, <1>2, ByteIs
<1> QED  BY <1>3 DEF Word

LEMMA ZerosAre ==
  ASSUME NEW a \in Nat, NEW limit \in Nat
  PROVE  LET n == RunFrom(a, PtrSize, limit, LAMBDA w : Word(w) = 0)
         IN n \in 0..limit /\ \A k \in 0..(n - 1) :
                                HasBytes(a + k * PtrSize, PtrSize) /\ Word(a + k * PtrSize) = 0
<1> DEFINE ok(k) == HasBytes(a + k * PtrSize, PtrSize) /\ Word(a + k * PtrSize) = 0
           S == {n \in 0..limit : \A k \in 0..(n - 1) : ok(k)}
           n == CHOOSE n \in 0..limit :
                  /\ \A k \in 0..(n - 1) : HasBytes(a + k * PtrSize, PtrSize) /\ Word(a + k * PtrSize) = 0
                  /\ \/ n = limit
                     \/ ~ HasBytes(a + n * PtrSize, PtrSize)
                     \/ ~ (Word(a + n * PtrSize) = 0)
<1>1. RunFrom(a, PtrSize, limit, LAMBDA w : Word(w) = 0) = n
  BY DEF RunFrom
<1>2. \E m \in 0..limit : (\A k \in 0..(m - 1) : ok(k)) /\ (m = limit \/ ~ ok(m))
  <2> HIDE DEF ok
  <2>1. 0 \in S /\ S \subseteq Nat /\ IsFiniteSet(S)
    <3>1. IsFiniteSet(0..limit)
      BY FS_Interval
    <3>2. S \subseteq 0..limit
      OBVIOUS
    <3>3. 0 \in S /\ S \subseteq Nat
      OBVIOUS
    <3> HIDE DEF S
    <3>4. IsFiniteSet(S)
      BY <3>1, <3>2, FS_Subset
    <3> QED  BY <3>3, <3>4
  <2>2. PICK m \in S : \A y \in S : y <= m
    <3> HIDE DEF S
    <3> QED  BY <2>1, FiniteHasLast
  <2>3. m = limit \/ ~ ok(m)
    <3> SUFFICES ASSUME m # limit, ok(m) PROVE FALSE
      OBVIOUS
    <3>1. m + 1 \in 0..limit
      OBVIOUS
    <3>2. \A k \in 0..((m + 1) - 1) : ok(k)
      BY <3>1
    <3>3. m + 1 \in S
      BY <3>1, <3>2
    <3> QED  BY <2>2, <3>3
  <2> QED  BY <2>3
<1>3. /\ n \in 0..limit
      /\ \A k \in 0..(n - 1) : HasBytes(a + k * PtrSize, PtrSize) /\ Word(a + k * PtrSize) = 0
  BY <1>2
<1> QED  BY <1>1, <1>3
----------------------------------------------------------------------------
(* One step of the listing of a section.  Items are only added; a word passed *)
(* is an item, the start of a string, a slot, or in a run of zeros, and a run *)
(* of zeros does not begin at a slot.                                       *)
Values(t) == {t[a] : a \in DOMAIN t} \cup {"align", "pointer", "raw"}
Listings(t) == UNION {[S -> Values(t)] : S \in SUBSET (DOMAIN t \cup Nat)}
Grows(t, u) == DOMAIN t \subseteq DOMAIN u /\ \A a \in DOMAIN t : u[a] = t[a]
NoRunAtSlot(t) == \A a \in DOMAIN t \cap Slots : t[a] # "align"
Shown(t, known, va, a) ==
  \/ a \in DOMAIN t \cup known
  \/ \E z \in va..a : /\ z \in DOMAIN t /\ t[z] = "align"
                      /\ (a - z) % PtrSize = 0
                      /\ \A w \in z..(a + PtrSize - 1) : Byte(w) = 0
Words(sec) == Size(sec) \div PtrSize

LEMMA ShownStays ==
  ASSUME NEW t, NEW u, NEW known, NEW va, NEW a, Grows(t, u), Shown(t, known, va, a)
  PROVE  Shown(u, known, va, a)
BY DEF Grows, Shown

LEMMA WithGrows ==
  ASSUME NEW t, NEW u \in Listings(t), NEW a \in Nat, a \notin DOMAIN u,
         NEW v \in {"align", "pointer", "raw"}
  PROVE  With(u, a, v) \in Listings(t) /\ Grows(u, With(u, a, v))
         /\ DOMAIN With(u, a, v) = DOMAIN u \cup {a} /\ With(u, a, v)[a] = v
<1>1. PICK S \in SUBSET (DOMAIN t \cup Nat) : u \in [S -> Values(t)]
  BY DEF Listings
<1> DEFINE w == With(u, a, v)
<1>2. DOMAIN u = S /\ \A b \in S : u[b] \in Values(t)
  BY <1>1
<1>3. w = [b \in S \cup {a} |-> IF b = a THEN v ELSE u[b]]
  BY <1>2 DEF With
<1>4. \A b \in S \cup {a} : (IF b = a THEN v ELSE u[b]) \in Values(t)
  BY <1>2 DEF Values
<1> HIDE DEF w
<1>5. w \in [S \cup {a} -> Values(t)]
  BY <1>3, <1>4
<1>6. S \cup {a} \in SUBSET (DOMAIN t \cup Nat)
  OBVIOUS
<1>7. w \in Listings(t)
  BY <1>5, <1>6 DEF Listings
<1>8. Grows(u, w) /\ DOMAIN w = DOMAIN u \cup {a} /\ w[a] = v
  BY <1>2, <1>3 DEF Grows
<1> QED  BY <1>7, <1>8 DEF w

LEMMA RunIsShown ==
  ASSUME prog \in Programs, NEW known, NEW va \in Nat, NEW i \in Nat, NEW run \in Nat,
         NEW a, a = va + i * PtrSize,
         \A k \in 0..(run - 1) : HasBytes(a + k * PtrSize, PtrSize) /\ Word(a + k * PtrSize) = 0,
         NEW t, a \in DOMAIN t, t[a] = "align", NEW k \in i..(i + run - 1)
  PROVE  Shown(t, known, va, va + k * PtrSize)
<1> DEFINE b == va + k * PtrSize
<1>0. PtrSize = 2
  BY ProgramAssumption
<1>1. k \in Nat /\ a \in Nat /\ b \in Nat /\ a \in va..b /\ (b - a) % PtrSize = 0
  BY <1>0
<1>2. ASSUME NEW w \in a..(b + PtrSize - 1) PROVE Byte(w) = 0
  <2> DEFINE q == (w - a) \div 2
             c == a + q * PtrSize
  <2>1. w - a \in Nat /\ w - a <= 2 * (k - i) + 1
    BY <1>0, <1>1
  <2>2. q \in Nat /\ 2 * q <= w - a /\ w - a <= 2 * q + 1
    BY <2>1
  <2>3. q <= k - i
    BY <1>1, <2>1, <2>2
  <2>4. q \in 0..(run - 1)
    BY <1>1, <2>2, <2>3
  <2> HIDE DEF q
  <2>5. HasBytes(c, PtrSize) /\ Word(c) = 0
    BY <2>4
  <2>6. c \in Nat /\ (w = c \/ w = c + 1)
    BY <1>0, <1>1, <2>1, <2>2
  <2> HIDE DEF c
  <2>7. Byte(c) = 0 /\ Byte(c + 1) = 0
    BY <2>5, <2>6, WordIsZero
  <2> QED  BY <2>6, <2>7
<1> HIDE DEF b
<1>3. Shown(t, known, va, b)
  BY <1>1, <1>2 DEF Shown
<1> QED  BY <1>3 DEF b

LEMMA ListedStep ==
  ASSUME prog \in Programs, NEW sec \in ToSet(prog.sections), NEW t,
         NEW st \in [i : Nat, found : Listings(t)], NoRunAtSlot(st.found)
  PROVE  LET new == Listed(sec, st)
         IN /\ new \in [i : Nat, found : Listings(t)]
            /\ Grows(st.found, new.found) /\ NoRunAtSlot(new.found)
            /\ st.i <= new.i /\ (st.i < Words(sec) => st.i < new.i)
            /\ Size(sec) <= LargeData =>
                 \A k \in st.i..(new.i - 1) :
                    Shown(new.found, strings \cup Slots, sec.va, sec.va + k * PtrSize)
<1> DEFINE new == Listed(sec, st)
           a == sec.va + st.i * PtrSize
           run == RunFrom(a, PtrSize, Words(sec) - st.i, LAMBDA w : Word(w) = 0)
           listed == a \in DOMAIN st.found \cup strings \cup Slots
           seen == Size(sec) <= LargeData \/ a \in DOMAIN xrefsTo \/ IsCode(Word(a))
           tag == IF IsCode(Word(a)) THEN "pointer" ELSE "raw"
           known == strings \cup Slots
           Fine(n) == /\ n \in [i : Nat, found : Listings(t)]
                      /\ Grows(st.found, n.found) /\ NoRunAtSlot(n.found)
                      /\ st.i <= n.i /\ (st.i < Words(sec) => st.i < n.i)
                      /\ Size(sec) <= LargeData =>
                           \A k \in st.i..(n.i - 1) :
                              Shown(n.found, known, sec.va, sec.va + k * PtrSize)
<1>0. PtrSize = 2 /\ ZeroRun \in Nat \ {0} /\ LargeData \in Nat
  BY ProgramAssumption
<1>1. sec.va \in Nat /\ Size(sec) \in Nat /\ Words(sec) \in Nat
  <2>1. sec.va \in Nat /\ Size(sec) \in Nat
    BY SectionIs
  <2> QED  BY <1>0, <2>1 DEF Words
<1>2. st.i \in Nat /\ st.found \in Listings(t) /\ a \in Nat
  BY <1>0, <1>1
<1>3. Grows(st.found, st.found)
  BY DEF Grows
<1>4. a = sec.va + st.i * PtrSize
  OBVIOUS
<1>5. new = IF st.i >= Words(sec) THEN st
            ELSE IF listed THEN [st EXCEPT !.i = @ + 1]
            ELSE IF run >= ZeroRun
            THEN [i |-> st.i + run, found |-> With(st.found, a, "align")]
            ELSE [i |-> st.i + 1, found |-> IF seen THEN With(st.found, a, tag) ELSE st.found]
  BY DEF Listed, Words, OfRun
<1>6. st.i < Words(sec) =>
        /\ run \in Nat
        /\ \A k \in 0..(run - 1) : HasBytes(a + k * PtrSize, PtrSize) /\ Word(a + k * PtrSize) = 0
  <2> SUFFICES ASSUME st.i < Words(sec)
               PROVE  /\ run \in Nat
                      /\ \A k \in 0..(run - 1) :
                           HasBytes(a + k * PtrSize, PtrSize) /\ Word(a + k * PtrSize) = 0
    OBVIOUS
  <2> DEFINE limit == Words(sec) - st.i
  <2>1. limit \in Nat
    BY <1>1, <1>2
  <2> HIDE DEF a, limit
  <2>2. LET n == RunFrom(a, PtrSize, limit, LAMBDA w : Word(w) = 0)
        IN n \in 0..limit /\ \A k \in 0..(n - 1) :
                               HasBytes(a + k * PtrSize, PtrSize) /\ Word(a + k * PtrSize) = 0
    BY <1>2, <2>1, ZerosAre
  <2>3. run \in 0..limit /\ \A k \in 0..(run - 1) :
                               HasBytes(a + k * PtrSize, PtrSize) /\ Word(a + k * PtrSize) = 0
    BY <2>2 DEF limit, run
  <2>4. run \in Nat
    BY <2>1, <2>3
  <2> QED  BY <2>3, <2>4
<1>7. tag \in {"align", "pointer", "raw"} /\ tag # "align"
  OBVIOUS
<1>8. listed <=> a \in DOMAIN st.found \/ a \in known
  OBVIOUS
<1>9. ~ seen => ~ (Size(sec) <= LargeData)
  OBVIOUS
<1> HIDE DEF new, a, run, listed, seen, tag, known
<1>10. /\ Grows(st.found, st.found) /\ NoRunAtSlot(st.found)
  BY <1>3
<1>11. ASSUME st.i >= Words(sec) PROVE Fine(new)
  <2>1. new = st
    BY <1>5, <1>11
  <2>2. ~ (st.i < Words(sec)) /\ st.i <= st.i /\ \A k \in st.i..(st.i - 1) : FALSE
    BY <1>1, <1>2, <1>11
  <2> QED  BY <1>2, <1>10, <2>1, <2>2
<1>12. ASSUME st.i < Words(sec), listed PROVE Fine(new)
  <2>1. new = [st EXCEPT !.i = @ + 1]
    BY <1>1, <1>2, <1>5, <1>12
  <2>2. new.i = st.i + 1 /\ new.found = st.found /\ new \in [i : Nat, found : Listings(t)]
    BY <1>2, <2>1
  <2>3. st.i <= new.i /\ st.i < new.i /\ \A k \in st.i..(new.i - 1) : k = st.i
    BY <1>2, <2>2
  <2>4. Shown(new.found, known, sec.va, a)
    BY <1>8, <1>12, <2>2 DEF Shown
  <2>5. \A k \in st.i..(new.i - 1) : Shown(new.found, known, sec.va, sec.va + k * PtrSize)
    BY <1>4, <2>3, <2>4
  <2> QED  BY <1>10, <2>2, <2>3, <2>5
<1>13. ASSUME st.i < Words(sec), ~ listed, run >= ZeroRun PROVE Fine(new)
  <2>1. new = [i |-> st.i + run, found |-> With(st.found, a, "align")]
    BY <1>1, <1>2, <1>5, <1>13
  <2>2. new.found = With(st.found, a, "align") /\ new.i = st.i + run
    BY <2>1
  <2>3. /\ new.found \in Listings(t) /\ Grows(st.found, new.found)
        /\ a \in DOMAIN new.found /\ new.found[a] = "align"
        /\ DOMAIN new.found = DOMAIN st.found \cup {a}
    BY <1>2, <1>8, <1>13, <2>2, WithGrows
  <2>4. new.i \in Nat /\ st.i < new.i /\ st.i <= new.i
    BY <1>0, <1>2, <1>6, <1>13, <2>2
  <2>5. NoRunAtSlot(new.found)
    BY <1>8, <1>10, <1>13, <2>3 DEF NoRunAtSlot, Grows, known
  <2>6. \A k \in st.i..(new.i - 1) : Shown(new.found, known, sec.va, sec.va + k * PtrSize)
    <3> SUFFICES ASSUME NEW k \in st.i..(new.i - 1)
                 PROVE  Shown(new.found, known, sec.va, sec.va + k * PtrSize)
      OBVIOUS
    <3> DEFINE found == new.found
               va == sec.va
               i == st.i
    <3>1. /\ va \in Nat /\ i \in Nat /\ run \in Nat /\ a = va + i * PtrSize
          /\ a \in DOMAIN found /\ found[a] = "align" /\ k \in i..(i + run - 1)
          /\ \A j \in 0..(run - 1) :
               HasBytes(a + j * PtrSize, PtrSize) /\ Word(a + j * PtrSize) = 0
      BY <1>1, <1>2, <1>4, <1>6, <1>13, <2>2, <2>3
    <3> HIDE DEF found, va, i
    <3>2. Shown(found, known, va, va + k * PtrSize)
      BY <3>1, RunIsShown
    <3> QED  BY <3>2 DEF found, va
  <2>7. new \in [i : Nat, found : Listings(t)]
    BY <2>1, <2>2, <2>3, <2>4
  <2> QED  BY <1>10, <2>3, <2>4, <2>5, <2>6, <2>7
<1>14. ASSUME st.i < Words(sec), ~ listed, ~ (run >= ZeroRun) PROVE Fine(new)
  <2>1. new = [i |-> st.i + 1, found |-> IF seen THEN With(st.found, a, tag) ELSE st.found]
    BY <1>1, <1>2, <1>5, <1>14
  <2>2. new.i = st.i + 1 /\ new.i \in Nat /\ st.i <= new.i /\ st.i < new.i
        /\ \A k \in st.i..(new.i - 1) : k = st.i
    BY <1>2, <2>1
  <2>3. CASE seen
    <3>1. new.found = With(st.found, a, tag)
      BY <2>1, <2>3
    <3>2. /\ new.found \in Listings(t) /\ Grows(st.found, new.found)
          /\ DOMAIN new.found = DOMAIN st.found \cup {a} /\ new.found[a] = tag
      BY <1>2, <1>7, <1>8, <1>14, <3>1, WithGrows
    <3>3. NoRunAtSlot(new.found)
      BY <1>7, <1>10, <3>2 DEF NoRunAtSlot, Grows, known
    <3>4. Shown(new.found, known, sec.va, a)
      BY <3>2 DEF Shown
    <3>5. \A k \in st.i..(new.i - 1) : Shown(new.found, known, sec.va, sec.va + k * PtrSize)
      BY <1>4, <2>2, <3>4
    <3>6. new \in [i : Nat, found : Listings(t)]
      BY <2>1, <2>2, <3>2
    <3> QED  BY <1>10, <2>2, <3>2, <3>3, <3>5, <3>6
  <2>4. CASE ~ seen
    <3>1. new = [i |-> st.i + 1, found |-> st.found]
      BY <2>1, <2>4
    <3>2. new.found = st.found /\ new \in [i : Nat, found : Listings(t)]
      BY <1>2, <3>1
    <3> QED  BY <1>9, <1>10, <2>2, <2>4, <3>2
  <2> QED  BY <2>3, <2>4
<1>15. st.i >= Words(sec) \/ st.i < Words(sec)
  BY <1>1, <1>2
<1> HIDE DEF Fine
<1>16. Fine(new)
  BY <1>11, <1>12, <1>13, <1>14, <1>15
<1> QED  BY <1>16 DEF new, Fine, known

(* The listing of a section, and of all of them.                            *)
LEMMA StepsKeepEach ==
  ASSUME NEW n \in Nat, NEW st, NEW X, st[0] \in X[0],
         \A m \in 1..n : st[m - 1] \in X[m - 1] => st[m] \in X[m]
  PROVE  \A m \in 0..n : st[m] \in X[m]
<1> DEFINE S == {m \in Nat : m <= n => st[m] \in X[m]}
<1>1. 0 \in S
  OBVIOUS
<1>2. ASSUME NEW m \in Nat, m \in S PROVE m + 1 \in S
  <2> SUFFICES ASSUME m + 1 <= n PROVE st[m + 1] \in X[m + 1]
    OBVIOUS
  <2>1. m <= n /\ m + 1 \in 1..n /\ (m + 1) - 1 = m
    OBVIOUS
  <2> QED  BY <1>2, <2>1
<1> HIDE DEF S
<1>3. Nat \subseteq S
  BY <1>1, <1>2, SetInduction
<1> QED  BY <1>3 DEF S

\* values that are in P until the step j takes them into Q, where they stay
LEMMA TurnsAt ==
  ASSUME NEW n \in Nat, NEW st, NEW P, NEW Q, NEW j \in 1..n, st[0] \in P,
         \A k \in 1..n : k # j /\ st[k - 1] \in P => st[k] \in P,
         st[j - 1] \in P => st[j] \in Q,
         \A k \in 1..n : k # j /\ st[k - 1] \in Q => st[k] \in Q
  PROVE  st[n] \in Q
<1> DEFINE X == [k \in 0..n |-> IF k < j THEN P ELSE Q]
<1>1. \A k \in 0..n : X[k] = IF k < j THEN P ELSE Q
  OBVIOUS
<1> HIDE DEF X
<1>2. st[0] \in X[0]
  BY <1>1
<1>3. ASSUME NEW k \in 1..n, st[k - 1] \in X[k - 1] PROVE st[k] \in X[k]
  <2>1. k - 1 \in 0..n /\ k \in 0..n
    OBVIOUS
  <2>2. CASE k < j
    BY <1>1, <1>3, <2>1, <2>2
  <2>3. CASE k = j
    BY <1>1, <1>3, <2>1, <2>3
  <2>4. CASE j < k
    BY <1>1, <1>3, <2>1, <2>4
  <2> QED  BY <2>2, <2>3, <2>4
<1>4. \A k \in 0..n : st[k] \in X[k]
  BY <1>2, <1>3, StepsKeepEach
<1>5. st[n] \in X[n] /\ X[n] = Q
  BY <1>1, <1>4
<1> QED  BY <1>5

ShownIn(t, sec) ==
  sec.exec \/ Size(sec) > LargeData
  \/ \A k \in 0..(Words(sec) - 1) : Shown(t, strings \cup Slots, sec.va, sec.va + k * PtrSize)

LEMMA GrowsOn ==
  ASSUME NEW t, NEW u, NEW w, Grows(t, u), Grows(u, w)
  PROVE  Grows(t, w)
BY DEF Grows

LEMMA SectionListed ==
  ASSUME prog \in Programs, NEW sec \in ToSet(prog.sections), NEW t,
         NEW u \in Listings(t), NoRunAtSlot(u)
  PROVE  LET new == ItemsOf(sec, u)
         IN new \in Listings(t) /\ Grows(u, new) /\ NoRunAtSlot(new) /\ ShownIn(new, sec)
<1> DEFINE words == Words(sec)
           States == [i : Nat, found : Listings(t)]
           none == [i |-> 0, found |-> u]
           Is(st) == st = [n \in 0..words |-> IF n = 0 THEN none ELSE Listed(sec, st[n - 1])]
           st == CHOOSE s : Is(s)
           small == Size(sec) <= LargeData
           Good == {s \in States :
                      /\ Grows(u, s.found) /\ NoRunAtSlot(s.found)
                      /\ small => \A k \in 0..(s.i - 1) :
                           Shown(s.found, strings \cup Slots, sec.va, sec.va + k * PtrSize)}
           X == [m \in 0..words |-> {s \in Good : m <= s.i}]
           F == [m \in 1..words |-> [s \in Good |-> Listed(sec, s)]]
<1>1. words \in Nat /\ Size(sec) \in Nat /\ LargeData \in Nat
  <2>1. Size(sec) \in Nat
    BY SectionIs
  <2> QED  BY <2>1, ProgramAssumption DEF Words
<1>2. none \in Good
  <2>1. none \in States /\ none.i = 0 /\ none.found = u
    OBVIOUS
  <2>2. Grows(u, u)
    BY DEF Grows
  <2> HIDE DEF none
  <2> QED  BY <2>1, <2>2
<1>3. ItemsOf(sec, u) = IF sec.exec THEN u ELSE st[words].found
  BY DEF ItemsOf, Words
<1>4. \A s \in Good : s \in States /\ s.i \in Nat /\ NoRunAtSlot(s.found)
  OBVIOUS
<1>5. ASSUME NEW s \in Good
      PROVE  /\ Listed(sec, s) \in Good /\ s.i <= Listed(sec, s).i
             /\ s.i < words => s.i < Listed(sec, s).i
  <2> DEFINE new == Listed(sec, s)
  <2>1. /\ new \in States
        /\ Grows(s.found, new.found) /\ NoRunAtSlot(new.found)
        /\ s.i <= new.i /\ (s.i < words => s.i < new.i)
        /\ small => \A k \in s.i..(new.i - 1) :
                      Shown(new.found, strings \cup Slots, sec.va, sec.va + k * PtrSize)
    BY ListedStep
  <2> HIDE DEF new, words, none, States
  <2>2. Grows(u, new.found)
    BY <2>1, GrowsOn
  <2>3. ASSUME small, NEW k \in 0..(new.i - 1)
        PROVE  Shown(new.found, strings \cup Slots, sec.va, sec.va + k * PtrSize)
    <3>1. CASE k \in s.i..(new.i - 1)
      BY <2>1, <2>3, <3>1
    <3>2. CASE k \in 0..(s.i - 1)
      <4>1. Shown(s.found, strings \cup Slots, sec.va, sec.va + k * PtrSize)
        BY <2>3, <3>2
      <4> QED  BY <2>1, <4>1, ShownStays
    <3>3. s.i \in Nat /\ new.i \in Nat
      BY <2>1, <1>4 DEF States
    <3> QED  BY <3>1, <3>2, <3>3
  <2>4. new \in Good
    BY <2>1, <2>2, <2>3
  <2> QED  BY <2>1, <2>4 DEF new
<1> HIDE DEF Good, none, words
<1>6. \E s : Is(s)
  <2>1. \A m \in 1..words : \A s \in Good : F[m][s] \in Good /\ F[m][s] = Listed(sec, s)
    BY <1>5
  <2> HIDE DEF F
  <2>2. PICK g \in [0..words -> Good] : IsSteps(g, words, none, F)
    BY <1>1, <1>2, <2>1, StepsIn
  <2>3. \A m \in 0..words : m # 0 => F[m][g[m - 1]] = Listed(sec, g[m - 1])
    <3> SUFFICES ASSUME NEW m \in 0..words, m # 0 PROVE F[m][g[m - 1]] = Listed(sec, g[m - 1])
      OBVIOUS
    <3>1. m \in 1..words /\ m - 1 \in 0..words
      BY <1>1
    <3>2. g[m - 1] \in Good
      BY <2>2, <3>1
    <3> QED  BY <2>1, <3>1, <3>2
  <2>4. Is(g)
    BY <2>2, <2>3 DEF IsSteps
  <2> QED  BY <2>4
<1>7. Is(st)
  BY <1>6
<1> HIDE DEF st
<1>8. st[0] \in X[0]
  <2>1. st[0] = none
    BY <1>1, <1>7
  <2>2. 0 <= none.i
    BY <1>2, <1>4
  <2> QED  BY <1>1, <1>2, <2>1, <2>2
<1>9. ASSUME NEW m \in 1..words, st[m - 1] \in X[m - 1] PROVE st[m] \in X[m]
  <2> DEFINE s == st[m - 1]
             new == Listed(sec, s)
  <2>1. m - 1 \in 0..words /\ m \in 0..words /\ m \in Nat
    BY <1>1
  <2>2. st[m] = new
    BY <1>7, <2>1
  <2>3. s \in Good /\ m - 1 <= s.i
    BY <1>9, <2>1
  <2> HIDE DEF s
  <2>4. new \in Good /\ s.i <= new.i /\ (s.i < words => s.i < new.i) /\ s.i \in Nat /\ new.i \in Nat
    BY <1>4, <1>5, <2>3
  <2> HIDE DEF new
  <2>5. m <= new.i
    BY <1>1, <2>1, <2>3, <2>4
  <2> QED  BY <2>1, <2>2, <2>4, <2>5
<1>10. st[words] \in X[words]
  <2> HIDE DEF X
  <2>1. \A m \in 0..words : st[m] \in X[m]
    BY <1>1, <1>8, <1>9, StepsKeepEach
  <2> QED  BY <1>1, <2>1
<1> DEFINE end == st[words]
<1>11. end \in Good /\ words <= end.i /\ end.i \in Nat
  BY <1>1, <1>4, <1>10
<1> HIDE DEF end
<1>12. /\ end.found \in Listings(t) /\ Grows(u, end.found) /\ NoRunAtSlot(end.found)
       /\ small => \A k \in 0..(end.i - 1) :
                     Shown(end.found, strings \cup Slots, sec.va, sec.va + k * PtrSize)
  BY <1>11 DEF Good
<1>13. ShownIn(end.found, sec)
  <2>1. CASE small
    <3>1. \A k \in 0..(words - 1) : k \in 0..(end.i - 1)
      BY <1>1, <1>11
    <3>2. \A k \in 0..(words - 1) :
            Shown(end.found, strings \cup Slots, sec.va, sec.va + k * PtrSize)
      BY <1>12, <2>1, <3>1
    <3> QED  BY <3>2 DEF ShownIn, words
  <2>2. CASE ~ small
    <3>1. Size(sec) > LargeData
      BY <1>1, <2>2
    <3> QED  BY <3>1 DEF ShownIn
  <2> QED  BY <2>1, <2>2
<1>14. CASE sec.exec
  <2>1. ItemsOf(sec, u) = u
    BY <1>3, <1>14
  <2>2. Grows(u, u) /\ ShownIn(u, sec)
    BY <1>14 DEF Grows, ShownIn
  <2> QED  BY <2>1, <2>2
<1>15. CASE ~ sec.exec
  <2>1. ItemsOf(sec, u) = end.found
    BY <1>3, <1>15 DEF end
  <2> QED  BY <1>12, <1>13, <2>1
<1> QED  BY <1>14, <1>15

LEMMA ShownInStays ==
  ASSUME NEW t, NEW u, NEW sec, Grows(t, u), ShownIn(t, sec)
  PROVE  ShownIn(u, sec)
<1>1. CASE sec.exec \/ Size(sec) > LargeData
  BY <1>1 DEF ShownIn
<1>2. CASE \A k \in 0..(Words(sec) - 1) :
             Shown(t, strings \cup Slots, sec.va, sec.va + k * PtrSize)
  <2>1. \A k \in 0..(Words(sec) - 1) :
          Shown(u, strings \cup Slots, sec.va, sec.va + k * PtrSize)
    BY <1>2, ShownStays
  <2> QED  BY <2>1 DEF ShownIn
<1> QED  BY <1>1, <1>2 DEF ShownIn

LEMMA PopulateLists ==
  ASSUME prog \in Programs, IsFcn(items), NoRunAtSlot(items), PopulateData
  PROVE  /\ IsFcn(items') /\ NoRunAtSlot(items')
         /\ \A sec \in ToSet(prog.sections) : ShownIn(items', sec)
<1> DEFINE secs == prog.sections
           n == Len(secs)
           Is(st) == st = [k \in 0..n |-> IF k = 0 THEN items ELSE ItemsOf(secs[k], st[k - 1])]
           st == CHOOSE s : Is(s)
           Good == {u \in Listings(items) : NoRunAtSlot(u)}
           X == [m \in 0..n |-> {u \in Good : \A k \in 1..m : ShownIn(u, secs[k])}]
           F == [m \in 1..n |-> [u \in Good |-> ItemsOf(secs[m], u)]]
<1>1. n \in Nat /\ DOMAIN secs = 1..n /\ \A k \in 1..n : secs[k] \in ToSet(secs)
  <2>1. secs \in Seq(ToSet(secs))
    BY ProgramAssumption
  <2> QED  BY <2>1
<1>2. items' = st[n]
  BY DEF PopulateData
<1>3. items \in Good
  <2> DEFINE V == Values(items)
             D == DOMAIN items
  <2>1. \A a \in D : items[a] \in V
    BY DEF Values
  <2>2. items = [a \in D |-> items[a]]
    BY DEF IsFcn
  <2> HIDE DEF V, D
  <2>3. items \in [D -> V]
    BY <2>1, <2>2
  <2>4. items \in Listings(items)
    BY <2>3 DEF Listings, V, D
  <2> QED  BY <2>4
<1>4. ASSUME NEW k \in 1..n, NEW u \in Good
      PROVE  LET new == ItemsOf(secs[k], u)
             IN new \in Good /\ Grows(u, new) /\ ShownIn(new, secs[k])
  <2>1. secs[k] \in ToSet(prog.sections) /\ u \in Listings(items) /\ NoRunAtSlot(u)
    BY <1>1
  <2> DEFINE sec == secs[k]
             new == ItemsOf(sec, u)
  <2> HIDE DEF sec
  <2>2. new \in Listings(items) /\ Grows(u, new) /\ NoRunAtSlot(new) /\ ShownIn(new, sec)
    BY <2>1, SectionListed DEF sec
  <2> HIDE DEF new
  <2>3. new \in Good /\ Grows(u, new) /\ ShownIn(new, sec)
    BY <2>2
  <2> HIDE DEF Good
  <2> QED  BY <2>3 DEF new, sec
<1> HIDE DEF n, secs, Good
<1>5. \E s : Is(s)
  <2>1. \A m \in 1..n : \A u \in Good : F[m][u] \in Good /\ F[m][u] = ItemsOf(secs[m], u)
    BY <1>4
  <2> HIDE DEF F
  <2>2. PICK g \in [0..n -> Good] : IsSteps(g, n, items, F)
    BY <1>1, <1>3, <2>1, StepsIn
  <2>3. \A m \in 0..n : m # 0 => F[m][g[m - 1]] = ItemsOf(secs[m], g[m - 1])
    <3> SUFFICES ASSUME NEW m \in 0..n, m # 0 PROVE F[m][g[m - 1]] = ItemsOf(secs[m], g[m - 1])
      OBVIOUS
    <3>1. m \in 1..n /\ m - 1 \in 0..n
      BY <1>1
    <3>2. g[m - 1] \in Good
      BY <2>2, <3>1
    <3> QED  BY <2>1, <3>1, <3>2
  <2>4. Is(g)
    BY <2>2, <2>3 DEF IsSteps
  <2> QED  BY <2>4
<1>6. Is(st)
  BY <1>5
<1> HIDE DEF st
<1>7. st[0] \in X[0]
  <2>1. st[0] = items
    BY <1>1, <1>6
  <2> QED  BY <1>1, <1>3, <2>1
<1>8. ASSUME NEW m \in 1..n, st[m - 1] \in X[m - 1] PROVE st[m] \in X[m]
  <2> DEFINE u == st[m - 1]
             new == ItemsOf(secs[m], u)
  <2>1. m - 1 \in 0..n /\ m \in 0..n
    BY <1>1
  <2>2. st[m] = new
    BY <1>6, <2>1
  <2>3. u \in Good /\ \A k \in 1..(m - 1) : ShownIn(u, secs[k])
    BY <1>8, <2>1
  <2> HIDE DEF u
  <2>4. new \in Good /\ Grows(u, new) /\ ShownIn(new, secs[m])
    BY <1>4, <2>3
  <2> HIDE DEF new
  <2>5. ASSUME NEW k \in 1..m PROVE ShownIn(new, secs[k])
    <3>1. CASE k = m
      BY <2>4, <3>1
    <3>2. CASE k # m
      <4>1. k \in 1..(m - 1)
        BY <1>1, <3>2
      <4>2. ShownIn(u, secs[k])
        BY <2>3, <4>1
      <4> QED  BY <2>4, <4>2, ShownInStays
    <3> QED  BY <3>1, <3>2
  <2> QED  BY <2>1, <2>2, <2>4, <2>5
<1>9. st[n] \in X[n]
  <2> HIDE DEF X
  <2>1. \A m \in 0..n : st[m] \in X[m]
    BY <1>1, <1>7, <1>8, StepsKeepEach
  <2> QED  BY <1>1, <2>1
<1>10. items' \in Good /\ \A k \in 1..n : ShownIn(items', secs[k])
  BY <1>1, <1>2, <1>9
<1>11. IsFcn(items') /\ NoRunAtSlot(items')
  <2>1. items' \in Listings(items) /\ NoRunAtSlot(items')
    BY <1>10 DEF Good
  <2>2. PICK S : items' \in [S -> Values(items)]
    BY <2>1 DEF Listings
  <2>3. IsFcn(items')
    BY <2>2 DEF IsFcn
  <2> QED  BY <2>1, <2>3
<1>12. ASSUME NEW sec \in ToSet(prog.sections) PROVE ShownIn(items', sec)
  <2>1. PICK k \in 1..n : sec = secs[k]
    BY <1>1 DEF ToSet, secs
  <2> QED  BY <1>10, <2>1
<1> QED  BY <1>11, <1>12

(* The items so far, and what is shown once they are all there; the slots get *)
(* theirs with the names.                                                   *)
Listing ==
  /\ IsFcn(items)
  /\ pass \notin {"main", "done"} => NoRunAtSlot(items)
  /\ pass = "names" => \A sec \in ToSet(prog.sections) : ShownIn(items, sec)
  /\ pass \in {"main", "done"} =>
       \A sec \in ToSet(prog.sections) :
         \/ sec.exec \/ Size(sec) > LargeData
         \/ \A k \in 0..(Words(sec) - 1) : Shown(items, strings, sec.va, sec.va + k * PtrSize)

LEMMA NamesKeepShown ==
  ASSUME ApplyNames, NoRunAtSlot(items), NEW va, NEW a, Shown(items, strings \cup Slots, va, a)
  PROVE  Shown(items', strings, va, a)
<1>1. /\ DOMAIN items' = DOMAIN items \cup Slots
      /\ \A b \in DOMAIN items \ Slots : items'[b] = items[b]
  BY DEF ApplyNames, Over
<1>2. CASE a \in DOMAIN items \cup strings \cup Slots
  BY <1>1, <1>2 DEF Shown
<1>3. CASE \E z \in va..a : /\ z \in DOMAIN items /\ items[z] = "align"
                            /\ (a - z) % PtrSize = 0
                            /\ \A w \in z..(a + PtrSize - 1) : Byte(w) = 0
  <2>1. PICK z \in va..a : /\ z \in DOMAIN items /\ items[z] = "align"
                           /\ (a - z) % PtrSize = 0
                           /\ \A w \in z..(a + PtrSize - 1) : Byte(w) = 0
    BY <1>3
  <2>2. z \in DOMAIN items' /\ items'[z] = "align"
    BY <1>1, <2>1 DEF NoRunAtSlot
  <2> QED  BY <2>1, <2>2 DEF Shown
<1> QED  BY <1>2, <1>3 DEF Shown

LEMMA NamesList == Listing /\ ApplyNames => Listing'
<1> SUFFICES ASSUME Listing, ApplyNames PROVE Listing'
  OBVIOUS
<1>1. pass = "names" /\ pass' = "main" /\ prog' = prog /\ strings' = strings
  BY DEF ApplyNames
<1>2. IsFcn(items')
  BY DEF ApplyNames, Over, IsFcn
<1>3. NoRunAtSlot(items) /\ \A sec \in ToSet(prog.sections) : ShownIn(items, sec)
  BY <1>1 DEF Listing
<1>4. ASSUME NEW sec \in ToSet(prog.sections), ~ sec.exec, ~ (Size(sec) > LargeData),
             NEW k \in 0..(Words(sec) - 1)
      PROVE  Shown(items', strings, sec.va, sec.va + k * PtrSize)
  <2>1. Shown(items, strings \cup Slots, sec.va, sec.va + k * PtrSize)
    BY <1>3, <1>4 DEF ShownIn
  <2> QED  BY <1>3, <2>1, NamesKeepShown
<1> QED  BY <1>1, <1>2, <1>4 DEF Listing, Words, Size, Shown, Byte, In

THEOREM ListingHolds == Spec => []Listing
<1>1. Init => Listing
  <2> SUFFICES ASSUME Init PROVE Listing
    OBVIOUS
  <2>1. items = <<>> /\ pass = "cfgs"
    BY DEF Init
  <2>2. DOMAIN <<>> = {} /\ IsFcn(<<>>)
    BY DEF IsFcn
  <2> QED  BY <2>1, <2>2 DEF Listing, NoRunAtSlot
<1>2. Flow /\ Listing /\ [Next]_vars => Listing'
  <2> SUFFICES ASSUME Flow, Listing, [Next]_vars PROVE Listing'
    OBVIOUS
  <2>0. ASSUME UNCHANGED <<prog, items>>,
               pass \notin {"names", "main", "done"}, pass' \notin {"names", "main", "done"}
        PROVE  Listing'
    BY <2>0 DEF Listing, NoRunAtSlot, Slots
  <2>1. CASE PopulateData
    <3>1. pass' = "names" /\ pass = "data" /\ prog' = prog /\ strings' = strings
      BY <2>1 DEF PopulateData, code
    <3>2. /\ IsFcn(items') /\ NoRunAtSlot(items')
          /\ \A sec \in ToSet(prog.sections) : ShownIn(items', sec)
      BY <2>1, <3>1, PopulateLists DEF Flow, Listing
    <3>3. NoRunAtSlot(items)'
      BY <3>1, <3>2 DEF NoRunAtSlot, Slots, Byte, In
    <3>4. \A sec \in ToSet(prog.sections) : ShownIn(items, sec)'
      <4>1. Slots' = Slots /\ \A a : Byte(a)' = Byte(a)
        BY <3>1 DEF Slots, Byte, In
      <4>2. \A known, va, a : Shown(items', known, va, a) => Shown(items, known, va, a)'
        BY <4>1 DEF Shown
      <4>3. \A sec : Words(sec)' = Words(sec) /\ Size(sec)' = Size(sec)
        BY DEF Words, Size
      <4> QED  BY <3>1, <3>2, <4>1, <4>2, <4>3 DEF ShownIn
    <3> QED  BY <3>1, <3>2, <3>3, <3>4 DEF Listing
  <2>2. CASE ApplyNames
    BY <2>2, NamesList
  <2>3. CASE DetectMain \/ UNCHANGED vars
    <3>1. /\ prog' = prog /\ items' = items /\ strings' = strings
          /\ pass' = pass \/ (pass = "main" /\ pass' = "done")
      BY <2>3 DEF DetectMain, vars, code, data
    <3>2. NoRunAtSlot(items)' = NoRunAtSlot(items) /\ IsFcn(items)' = IsFcn(items)
      BY <3>1 DEF NoRunAtSlot, Slots
    <3>3. \A sec : /\ ShownIn(items, sec)' <=> ShownIn(items, sec)
                   /\ Size(sec)' = Size(sec) /\ Words(sec)' = Words(sec)
      BY <3>1 DEF ShownIn, Words, Size, Shown, Byte, In, Slots
    <3>4. \A va, a : Shown(items, strings, va, a)' <=> Shown(items, strings, va, a)
      BY <3>1 DEF Shown, Byte, In, Size
    <3> QED  BY <3>1, <3>2, <3>3, <3>4 DEF Listing
  <2>4. CASE BuildCfgs \/ RemoveJunk \/ DetectSwitches \/ BuildXrefs \/ FindStrings
             \/ FindStringRefs \/ DetectVtables \/ DetectGlobals \/ DetectNoReturn
    BY <2>0, <2>4 DEF BuildCfgs, RemoveJunk, DetectSwitches, BuildXrefs, FindStrings,
         FindStringRefs, DetectVtables, DetectGlobals, DetectNoReturn, code, data
  <2>5. CASE EndTailCalls \/ CallingConventions \/ EndDataflow \/ DetectLoops \/ RecoverStructs
             \/ Signatures
    BY <2>0, <2>5 DEF EndTailCalls, CallingConventions, EndDataflow, DetectLoops,
         RecoverStructs, Signatures, code, data
  <2>6. ASSUME NEW b \in left, TailCall(b) PROVE Listing'
    BY <2>0, <2>6 DEF TailCall, code, data
  <2>7. ASSUME NEW f \in left, Dataflow(f) PROVE Listing'
    BY <2>0, <2>7 DEF Dataflow, code, data
  <2> QED  BY <2>1, <2>2, <2>3, <2>4, <2>5, <2>6, <2>7 DEF Next
<1> QED  BY <1>1, <1>2, FlowHolds, PTL DEF Spec

(* Every word of a data section that is not too large is in the listing: as an *)
(* item, as the start of a string, or in a run of zeros.                     *)
THEOREM EveryWordIsListed == Spec => []DataIsListed
<1>1. Listing => DataIsListed
  <2> SUFFICES ASSUME Listing, pass = "done", NEW sec \in ToSet(prog.sections),
                      NEW k \in 0..(Words(sec) - 1), ~ sec.exec, ~ (Size(sec) > LargeData)
               PROVE  Shown(items, strings, sec.va, sec.va + k * PtrSize)
    BY DEF DataIsListed, Shown, Words
  <2> QED  BY DEF Listing
<1> QED  BY <1>1, ListingHolds, PTL
----------------------------------------------------------------------------
(* Constants in registers.  What is known, and what was found, is drawn from   *)
(* the operands of the program.                                             *)
Registers == {Insn(a).reg : a \in Nat}
Constants == {Insn(a).val : a \in Nat}
Places == {v + Insn(a).disp : v \in Constants, a \in Nat}
Targeted == Constants \cup {Word(p) : p \in Places}
Known == UNION {[S -> Constants] : S \in SUBSET Registers}
Resolutions == UNION {[S -> Targeted] : S \in SUBSET Nat}
Knowledge == [regs : Known, found : Resolutions]

LEMMA AssignedKnown ==
  ASSUME NEW regs \in Known, NEW a \in Nat
  PROVE  Assigned(regs, Insn(a)) \in Known
<1> DEFINE i == Insn(a)
<1>1. PICK S \in SUBSET Registers : regs \in [S -> Constants]
  BY DEF Known
<1>2. i.reg \in Registers /\ i.val \in Constants
  BY DEF Registers, Constants
<1> HIDE DEF i
<1>3. DOMAIN regs = S /\ \A r \in S : regs[r] \in Constants
  BY <1>1
<1>4. With(regs, i.reg, i.val) \in Known
  <2>1. With(regs, i.reg, i.val) \in [S \cup {i.reg} -> Constants]
    <3>1. With(regs, i.reg, i.val) = [b \in S \cup {i.reg} |-> IF b = i.reg THEN i.val ELSE regs[b]]
      BY <1>3 DEF With
    <3>2. \A b \in S \cup {i.reg} : (IF b = i.reg THEN i.val ELSE regs[b]) \in Constants
      BY <1>2, <1>3
    <3> QED  BY <3>1, <3>2
  <2>2. S \cup {i.reg} \in SUBSET Registers
    BY <1>2
  <2> QED  BY <2>1, <2>2 DEF Known
<1>5. [r \in DOMAIN regs \ {i.reg} |-> regs[r]] \in Known
  <2>1. [r \in DOMAIN regs \ {i.reg} |-> regs[r]] \in [S \ {i.reg} -> Constants]
    BY <1>3
  <2>2. S \ {i.reg} \in SUBSET Registers
    OBVIOUS
  <2> QED  BY <2>1, <2>2 DEF Known
<1>6. Assigned(regs, i) \in Known
  BY <1>4, <1>5 DEF Assigned
<1> QED  BY <1>6 DEF i

LEMMA ResolvedTargeted ==
  ASSUME NEW regs \in Known, NEW a \in Nat
  PROVE  Resolved(regs, Insn(a)) \subseteq Targeted
<1> DEFINE i == Insn(a)
<1>1. PICK S \in SUBSET Registers : regs \in [S -> Constants]
  BY DEF Known
<1>2. \A r \in DOMAIN regs : regs[r] \in Constants
  BY <1>1
<1>3. \A r \in DOMAIN regs : regs[r] + i.disp \in Places
  BY <1>2 DEF Places
<1> HIDE DEF i
<1>4. {regs[r] : r \in {q \in DOMAIN regs : q = i.reg /\ IsCode(regs[q])}} \subseteq Targeted
  BY <1>2 DEF Targeted
<1>5. i.base \in DOMAIN regs => {t \in {Word(regs[i.base] + i.disp)} : IsCode(t)} \subseteq Targeted
  BY <1>3 DEF Targeted
<1>6. Resolved(regs, i) \subseteq Targeted
  BY <1>4, <1>5 DEF Resolved
<1> QED  BY <1>6 DEF i

(* What one instruction does to the knowledge; only its own target is found.  *)
LEMMA FollowedIs ==
  ASSUME NEW st \in Knowledge, NEW a \in Nat
  PROVE  LET new == Followed(st, a)
             regs == Assigned(st.regs, Insn(a))
             target == Resolved(regs, Insn(a))
         IN /\ new \in Knowledge
            /\ new.regs = AfterCall(regs, Insn(a))
            /\ DOMAIN new.found = DOMAIN st.found \cup (IF target = {} THEN {} ELSE {a})
            /\ \A b \in DOMAIN st.found \ {a} : new.found[b] = st.found[b]
            /\ target # {} => new.found[a] \in target
<1> DEFINE new == Followed(st, a)
           regs == Assigned(st.regs, Insn(a))
           target == Resolved(regs, Insn(a))
           t == CHOOSE t \in target : TRUE
<1>1. st.regs \in Known /\ st.found \in Resolutions
  BY DEF Knowledge
<1>2. regs \in Known
  BY <1>1, AssignedKnown
<1> HIDE DEF regs
<1>3. target \subseteq Targeted
  BY <1>2, ResolvedTargeted
<1>4. AfterCall(regs, Insn(a)) \in Known
  <2>1. <<>> \in [{} -> Constants]
    OBVIOUS
  <2>2. <<>> \in Known
    BY <2>1 DEF Known
  <2> QED  BY <1>2, <2>2 DEF AfterCall
<1>5. new = [regs |-> AfterCall(regs, Insn(a)),
             found |-> IF target = {} THEN st.found ELSE With(st.found, a, t)]
  BY DEF Followed, regs
<1>6. target # {} => t \in target
  OBVIOUS
<1> HIDE DEF target, t
<1>7. PICK S \in SUBSET Nat : st.found \in [S -> Targeted]
  BY <1>1 DEF Resolutions
<1>8. DOMAIN st.found = S /\ \A b \in S : st.found[b] \in Targeted
  BY <1>7
<1>9. CASE target = {}
  <2>1. new = [regs |-> AfterCall(regs, Insn(a)), found |-> st.found]
    BY <1>5, <1>9
  <2> HIDE DEF new
  <2>2. new \in Knowledge /\ new.found = st.found /\ new.regs = AfterCall(regs, Insn(a))
    BY <1>1, <1>4, <2>1 DEF Knowledge
  <2> QED  BY <1>9, <2>2 DEF new, target, regs
<1>10. CASE target # {}
  <2> DEFINE found == With(st.found, a, t)
  <2>1. new = [regs |-> AfterCall(regs, Insn(a)), found |-> found]
    BY <1>5, <1>10
  <2>2. found = [b \in S \cup {a} |-> IF b = a THEN t ELSE st.found[b]]
    BY <1>8 DEF With
  <2>3. \A b \in S \cup {a} : (IF b = a THEN t ELSE st.found[b]) \in Targeted
    BY <1>3, <1>6, <1>8, <1>10
  <2> HIDE DEF found
  <2>4. found \in [S \cup {a} -> Targeted] /\ found[a] = t
        /\ \A b \in S \ {a} : found[b] = st.found[b]
    BY <2>2, <2>3
  <2>5. S \cup {a} \in SUBSET Nat
    BY <1>7
  <2>6. found \in Resolutions
    BY <2>4, <2>5 DEF Resolutions
  <2> HIDE DEF new
  <2>7. new \in Knowledge /\ new.found = found /\ new.regs = AfterCall(regs, Insn(a))
    BY <1>4, <2>1, <2>6 DEF Knowledge
  <2>8. DOMAIN found = DOMAIN st.found \cup {a}
    BY <1>8, <2>4
  <2> QED  BY <1>6, <1>8, <1>10, <2>4, <2>7, <2>8 DEF new, target, regs
<1> QED  BY <1>9, <1>10

(* The register of a target: what the last instruction that matters left in it, *)
(* and the answer that follows from it.                                     *)
Written(i) == i.kind \in {"mov", "lea"} /\ i.val # 0
Matters(i, r) == i.kind = "call" \/ (i.reg = r /\ i.kind # "cmp")
KnownAs(regs, r, i) ==
  IF Written(i) THEN r \in DOMAIN regs /\ regs[r] = i.val ELSE r \notin DOMAIN regs
Asks(a) ==
  Insn(a).kind \in {"call", "jmp"} /\ Insn(a).reg = 0 /\ Insn(a).base # 0 /\ Insn(a).val = 0
Answered(found, a, i) ==
  LET place == i.val + Insn(a).disp
  IN IF Written(i) /\ HasBytes(place, MinRead) /\ IsCode(Word(place))
     THEN a \in DOMAIN found /\ found[a] = Word(place) ELSE a \notin DOMAIN found

LEMMA WriteIsKnown ==
  ASSUME NEW regs, NEW i, NEW r, r # 0, Matters(i, r)
  PROVE  KnownAs(AfterCall(Assigned(regs, i), i), r, i)
<1>1. CASE i.kind = "call"
  <2>1. DOMAIN AfterCall(Assigned(regs, i), i) = {}
    BY <1>1 DEF AfterCall
  <2> QED  BY <1>1, <2>1 DEF KnownAs, Written
<1>2. CASE i.kind # "call"
  <2>1. i.reg = r /\ i.kind # "cmp" /\ AfterCall(Assigned(regs, i), i) = Assigned(regs, i)
    BY <1>2 DEF Matters, AfterCall
  <2>2. CASE Written(i)
    <3>1. Assigned(regs, i) = With(regs, r, i.val)
      BY <2>1, <2>2 DEF Assigned, Written
    <3>2. r \in DOMAIN With(regs, r, i.val) /\ With(regs, r, i.val)[r] = i.val
      BY DEF With
    <3> QED  BY <2>1, <2>2, <3>1, <3>2 DEF KnownAs
  <2>3. CASE ~ Written(i)
    <3>1. Assigned(regs, i) = [q \in DOMAIN regs \ {r} |-> regs[q]]
      BY <2>1, <2>3 DEF Assigned, Written
    <3> QED  BY <2>1, <2>3, <3>1 DEF KnownAs
  <2> QED  BY <2>2, <2>3
<1> QED  BY <1>1, <1>2

LEMMA KnownStays ==
  ASSUME NEW regs, NEW i, NEW r, NEW last, ~ Matters(i, r), KnownAs(regs, r, last)
  PROVE  KnownAs(AfterCall(Assigned(regs, i), i), r, last)
<1> DEFINE new == AfterCall(Assigned(regs, i), i)
<1>1. new = Assigned(regs, i) /\ (i.reg # r \/ i.kind = "cmp")
  BY DEF Matters, AfterCall
<1>2. (r \in DOMAIN new <=> r \in DOMAIN regs) /\ (r \in DOMAIN regs => new[r] = regs[r])
  <2>1. CASE i.kind \in {"mov", "lea"} /\ i.reg # 0 /\ i.val # 0
    <3>1. new = With(regs, i.reg, i.val) /\ i.reg # r
      BY <1>1, <2>1 DEF Assigned
    <3> QED  BY <3>1 DEF With
  <2>2. CASE ~ (i.kind \in {"mov", "lea"} /\ i.reg # 0 /\ i.val # 0) /\ i.reg # 0 /\ i.kind # "cmp"
    <3>1. new = [q \in DOMAIN regs \ {i.reg} |-> regs[q]] /\ i.reg # r
      BY <1>1, <2>2 DEF Assigned
    <3> HIDE DEF new
    <3> QED  BY <3>1
  <2>3. CASE ~ (i.kind \in {"mov", "lea"} /\ i.reg # 0 /\ i.val # 0)
             /\ ~ (i.reg # 0 /\ i.kind # "cmp")
    BY <1>1, <2>3 DEF Assigned
  <2> QED  BY <2>1, <2>2, <2>3
<1> HIDE DEF new
<1>3. KnownAs(new, r, last)
  BY <1>2 DEF KnownAs
<1> QED  BY <1>3 DEF new

LEMMA AskIsAnswered ==
  ASSUME NEW st \in Knowledge, NEW a \in Nat, NEW last, Asks(a),
         KnownAs(st.regs, Insn(a).base, last), a \notin DOMAIN st.found
  PROVE  Answered(Followed(st, a).found, a, last)
<1> DEFINE i == Insn(a)
           regs == st.regs
           found == Followed(st, a).found
           target == Resolved(regs, i)
           place == last.val + i.disp
<1>1. i.kind \in {"call", "jmp"} /\ i.reg = 0 /\ i.base # 0 /\ i.val = 0 /\ KnownAs(regs, i.base, last)
  BY DEF Asks
<1>2. Assigned(regs, i) = regs
  BY <1>1 DEF Assigned
<1>3. /\ DOMAIN found = DOMAIN st.found \cup (IF target = {} THEN {} ELSE {a})
      /\ target # {} => found[a] \in target
  BY <1>2, FollowedIs
<1>4. target = IF i.base \in DOMAIN regs /\ HasBytes(regs[i.base] + i.disp, MinRead)
               THEN {t \in {Word(regs[i.base] + i.disp)} : IsCode(t)} ELSE {}
  BY <1>1 DEF Resolved
<1> HIDE DEF i, regs, found, target
<1>5. CASE Written(last) /\ HasBytes(place, MinRead) /\ IsCode(Word(place))
  <2>1. i.base \in DOMAIN regs /\ regs[i.base] + i.disp = place
    BY <1>1, <1>5 DEF KnownAs
  <2> HIDE DEF place
  <2>2. target = {t \in {Word(place)} : IsCode(t)}
    BY <1>4, <1>5, <2>1
  <2>3. target = {Word(place)}
    BY <1>5, <2>2
  <2>4. a \in DOMAIN found /\ found[a] = Word(place)
    BY <1>3, <2>3
  <2> QED  BY <1>5, <2>4 DEF Answered, place, found, i
<1>6. CASE ~ (Written(last) /\ HasBytes(place, MinRead) /\ IsCode(Word(place)))
  <2>1. target = {}
    <3>1. CASE ~ Written(last)
      BY <1>1, <1>4, <3>1 DEF KnownAs
    <3>2. CASE Written(last)
      <4>1. i.base \in DOMAIN regs /\ regs[i.base] + i.disp = place
        BY <1>1, <3>2 DEF KnownAs
      <4> HIDE DEF place
      <4>2. ~ HasBytes(place, MinRead) \/ ~ IsCode(Word(place))
        BY <1>6, <3>2
      <4>3. target = IF HasBytes(place, MinRead) THEN {t \in {Word(place)} : IsCode(t)} ELSE {}
        BY <1>4, <4>1
      <4> QED  BY <4>2, <4>3
    <3> QED  BY <3>1, <3>2
  <2>2. a \notin DOMAIN found
    BY <1>3, <2>1
  <2> QED  BY <1>6, <2>2 DEF Answered, place, found, i
<1> QED  BY <1>5, <1>6

IsThrough(st, list, before) ==
  st = [n \in 0..Len(list) |-> IF n = 0 THEN before ELSE Followed(st[n - 1], list[n])]

LEMMA ThroughIs ==
  ASSUME NEW list \in Seq(Nat), NEW before \in Knowledge
  PROVE  \E st \in [0..Len(list) -> Knowledge] :
           IsThrough(st, list, before) /\ ThroughBlock(list, before) = st[Len(list)]
<1> DEFINE n == Len(list)
           st == CHOOSE s : IsThrough(s, list, before)
           F == [m \in 1..n |-> [s \in Knowledge |-> Followed(s, list[m])]]
<1>1. n \in Nat /\ \A k \in 1..n : list[k] \in Nat
  OBVIOUS
<1>2. ThroughBlock(list, before) = st[n]
  BY DEF ThroughBlock, IsThrough
<1> HIDE DEF n
<1>3. \A m \in 1..n : \A s \in Knowledge : Followed(s, list[m]) \in Knowledge
  BY <1>1, FollowedIs
<1>4. \E s : IsThrough(s, list, before)
  <2>1. \A m \in 1..n : \A s \in Knowledge : F[m][s] \in Knowledge /\ F[m][s] = Followed(s, list[m])
    BY <1>3
  <2> HIDE DEF F
  <2>2. PICK g \in [0..n -> Knowledge] : IsSteps(g, n, before, F)
    BY <1>1, <2>1, StepsIn
  <2>3. \A m \in 0..n : m # 0 => F[m][g[m - 1]] = Followed(g[m - 1], list[m])
    <3> SUFFICES ASSUME NEW m \in 0..n, m # 0 PROVE F[m][g[m - 1]] = Followed(g[m - 1], list[m])
      OBVIOUS
    <3>1. m \in 1..n /\ m - 1 \in 0..n
      BY <1>1
    <3>2. g[m - 1] \in Knowledge
      BY <2>2, <3>1
    <3> QED  BY <2>1, <3>1, <3>2
  <2>4. IsThrough(g, list, before)
    BY <2>2, <2>3 DEF IsSteps, IsThrough, n
  <2> QED  BY <2>4
<1>5. IsThrough(st, list, before)
  BY <1>4
<1> HIDE DEF st
<1>6. /\ st[0] = before /\ \A m \in 1..n : st[m] = Followed(st[m - 1], list[m])
      /\ st = [m \in 0..n |-> st[m]]
  <2>1. st = [m \in 0..n |-> IF m = 0 THEN before ELSE Followed(st[m - 1], list[m])]
    BY <1>5 DEF IsThrough, n
  <2>2. 0 \in 0..n /\ \A m \in 1..n : m \in 0..n /\ m # 0
    BY <1>1
  <2>3. \A m \in 0..n : st[m] = IF m = 0 THEN before ELSE Followed(st[m - 1], list[m])
    BY <2>1
  <2> QED  BY <2>1, <2>2, <2>3
<1>7. \A m \in 0..n : st[m] \in Knowledge
  <2>1. \A m \in 1..n : st[m - 1] \in Knowledge => st[m] \in Knowledge
    BY <1>3, <1>6
  <2>2. st[0] \in Knowledge
    BY <1>6
  <2> QED  BY <1>1, <2>1, <2>2, StepsKeep
<1>8. st \in [0..n -> Knowledge]
  BY <1>6, <1>7
<1> QED  BY <1>2, <1>5, <1>8 DEF n

LEMMA FollowedKeeps ==
  ASSUME NEW st \in Knowledge, NEW a \in Nat
  PROVE  /\ Followed(st, a) \in Knowledge
         /\ Followed(st, a).regs = AfterCall(Assigned(st.regs, Insn(a)), Insn(a))
         /\ DOMAIN Followed(st, a).found \subseteq DOMAIN st.found \cup {a}
         /\ DOMAIN st.found \subseteq DOMAIN Followed(st, a).found
         /\ \A b \in DOMAIN st.found \ {a} : Followed(st, a).found[b] = st.found[b]
BY FollowedIs

LEMMA BlockFinds ==
  ASSUME NEW list \in Seq(Nat), NEW before \in Knowledge
  PROVE  LET after == ThroughBlock(list, before)
             here == {list[k] : k \in 1..Len(list)}
         IN /\ after \in Knowledge
            /\ DOMAIN after.found \subseteq DOMAIN before.found \cup here
            /\ \A a \in DOMAIN before.found \ here :
                 a \in DOMAIN after.found /\ after.found[a] = before.found[a]
<1> DEFINE n == Len(list)
           here == {list[k] : k \in 1..n}
           X == {s \in Knowledge :
                   /\ DOMAIN s.found \subseteq DOMAIN before.found \cup here
                   /\ \A a \in DOMAIN before.found \ here :
                        a \in DOMAIN s.found /\ s.found[a] = before.found[a]}
<1>1. PICK st \in [0..n -> Knowledge] :
        IsThrough(st, list, before) /\ ThroughBlock(list, before) = st[n]
  BY ThroughIs
<1>2. n \in Nat /\ \A k \in 1..n : list[k] \in Nat /\ list[k] \in here
  OBVIOUS
<1>3. st[0] = before /\ \A m \in 1..n : st[m] = Followed(st[m - 1], list[m])
  <2>1. IsThrough(st, list, before)
    BY <1>1
  <2>2. n \in Nat
    BY <1>2
  <2> QED  BY <2>1, <2>2 DEF IsThrough
<1> HIDE DEF n, here
<1>4. st[0] \in X
  BY <1>3
<1>5. ASSUME NEW m \in 1..n, st[m - 1] \in X PROVE st[m] \in X
  <2> DEFINE s == st[m - 1]
             new == Followed(s, list[m])
  <2>1. s \in Knowledge /\ list[m] \in Nat /\ list[m] \in here
    BY <1>2, <1>5
  <2>2. /\ DOMAIN s.found \subseteq DOMAIN before.found \cup here
        /\ \A a \in DOMAIN before.found \ here : a \in DOMAIN s.found /\ s.found[a] = before.found[a]
    BY <1>5
  <2> HIDE DEF s
  <2>3. /\ new \in Knowledge
        /\ DOMAIN new.found \subseteq DOMAIN s.found \cup {list[m]}
        /\ DOMAIN s.found \subseteq DOMAIN new.found
        /\ \A b \in DOMAIN s.found \ {list[m]} : new.found[b] = s.found[b]
    BY <2>1, FollowedIs
  <2>4. st[m] = new
    BY <1>3 DEF s
  <2> HIDE DEF new
  <2>5. new \in X
    BY <2>1, <2>2, <2>3
  <2> QED  BY <2>4, <2>5
<1>6. st[n] \in X
  <2> HIDE DEF X
  <2>1. \A m \in 0..n : st[m] \in X
    BY <1>2, <1>4, <1>5, StepsKeep
  <2> QED  BY <1>2, <2>1
<1> QED  BY <1>1, <1>6 DEF n, here

\* the instruction n of a list asks for what m wrote: none between them matters
AsksFor(list, n, m) ==
    /\ Asks(list[n]) /\ Matters(Insn(list[m]), Insn(list[n]).base)
    /\ \A k \in (m + 1)..(n - 1) : ~ Matters(Insn(list[k]), Insn(list[n]).base)

LEMMA BlockAnswers ==
  ASSUME NEW list \in Seq(Nat), NEW before \in Knowledge, NEW end, Rising(list, end),
         NEW n \in 1..Len(list), NEW m \in 1..(n - 1), AsksFor(list, n, m),
         list[n] \notin DOMAIN before.found
  PROVE  Answered(ThroughBlock(list, before).found, list[n], Insn(list[m]))
<1> DEFINE N == Len(list)
           a == list[n]
           r == Insn(list[n]).base
           last == Insn(list[m])
           X == [k \in 0..(n - 1) |->
                   {s \in Knowledge : /\ a \notin DOMAIN s.found
                                      /\ m <= k => KnownAs(s.regs, r, last)}]
<1>1. PICK st \in [0..N -> Knowledge] :
        IsThrough(st, list, before) /\ ThroughBlock(list, before) = st[N]
  BY ThroughIs
<1>2. N \in Nat /\ n \in 1..N /\ m \in 1..(n - 1) /\ \A k \in 1..N : list[k] \in Nat
  OBVIOUS
<1>3. st[0] = before /\ \A k \in 1..N : st[k] = Followed(st[k - 1], list[k])
  <2>1. IsThrough(st, list, before)
    BY <1>1
  <2>2. N \in Nat
    BY <1>2
  <2>3. st = [k \in 0..N |-> IF k = 0 THEN before ELSE Followed(st[k - 1], list[k])]
    BY <2>1 DEF IsThrough
  <2> HIDE DEF N
  <2>4. st[0] = before
    BY <2>2, <2>3
  <2>5. \A k \in 1..N : k \in 0..N /\ k # 0
    BY <2>2
  <2>6. \A k \in 1..N : st[k] = Followed(st[k - 1], list[k])
    BY <2>3, <2>5
  <2> QED  BY <2>4, <2>6
<1>4. \A k \in 1..N : k # n => list[k] # a
  <2> SUFFICES ASSUME NEW k \in 1..N, k # n PROVE list[k] # a
    OBVIOUS
  <2>1. k < n \/ n < k
    BY <1>2
  <2>2. k < n => list[k] < list[n]
    BY <1>2 DEF Rising
  <2>3. n < k => list[n] < list[k]
    BY <1>2 DEF Rising
  <2> QED  BY <1>2, <2>1, <2>2, <2>3
<1>5. r # 0 /\ a \in Nat /\ Asks(a) /\ a \notin DOMAIN before.found /\ Insn(a).base = r
  BY <1>2 DEF Asks, AsksFor
<1>6. Matters(last, r) /\ \A k \in (m + 1)..(n - 1) : ~ Matters(Insn(list[k]), r)
  BY DEF AsksFor
<1> HIDE DEF N, a, r, last
<1>7. st[0] \in X[0]
  BY <1>2, <1>3, <1>5
<1>8. ASSUME NEW k \in 1..(n - 1), st[k - 1] \in X[k - 1] PROVE st[k] \in X[k]
  <2> DEFINE s == st[k - 1]
             i == Insn(list[k])
             new == Followed(s, list[k])
  <2>0. k - 1 \in 0..(n - 1) /\ k \in 0..(n - 1) /\ k \in 1..N /\ k # n
    BY <1>2
  <2>1. k - 1 \in 0..(n - 1) /\ k \in 0..(n - 1) /\ k \in 1..N /\ list[k] \in Nat /\ list[k] # a
    BY <1>2, <1>4, <2>0
  <2>2. s \in Knowledge /\ a \notin DOMAIN s.found /\ (m <= k - 1 => KnownAs(s.regs, r, last))
    BY <1>8, <2>1
  <2>3. st[k] = new
    BY <1>3, <2>1
  <2> HIDE DEF s, X
  <2>4. /\ new \in Knowledge
        /\ DOMAIN new.found \subseteq DOMAIN s.found \cup {list[k]}
        /\ new.regs = AfterCall(Assigned(s.regs, i), i)
    <3> DEFINE x == list[k]
    <3>1. x \in Nat /\ s \in Knowledge
      BY <2>1, <2>2
    <3> HIDE DEF x
    <3>2. /\ Followed(s, x) \in Knowledge
          /\ Followed(s, x).regs = AfterCall(Assigned(s.regs, Insn(x)), Insn(x))
          /\ DOMAIN Followed(s, x).found \subseteq DOMAIN s.found \cup {x}
      BY <3>1, FollowedKeeps
    <3> QED  BY <3>2 DEF x
  <2> HIDE DEF new
  <2> USE DEF X
  <2>5. CASE k = m
    <3>1. KnownAs(new.regs, r, last)
      BY <1>5, <1>6, <2>4, <2>5, WriteIsKnown DEF last
    <3> QED  BY <2>1, <2>2, <2>3, <2>4, <3>1
  <2>6. CASE m < k
    <3>1. m <= k - 1 /\ k \in (m + 1)..(n - 1)
      BY <1>2, <2>6
    <3>2. ~ Matters(i, r)
      BY <1>6, <3>1
    <3> HIDE DEF i
    <3>3. KnownAs(new.regs, r, last)
      BY <2>2, <2>4, <3>1, <3>2, KnownStays
    <3> QED  BY <2>1, <2>2, <2>3, <2>4, <3>3
  <2>7. CASE k < m
    <3>1. ~ (m <= k)
      BY <1>2, <2>7
    <3> QED  BY <2>1, <2>2, <2>3, <2>4, <3>1
  <2> QED  BY <1>2, <2>5, <2>6, <2>7
<1>9. \A k \in 0..(n - 1) : st[k] \in X[k]
  <2>1. n - 1 \in Nat
    BY <1>2
  <2> HIDE DEF X
  <2> QED  BY <1>7, <1>8, <2>1, StepsKeepEach
<1>10. st[n - 1] \in Knowledge /\ KnownAs(st[n - 1].regs, r, last) /\ a \notin DOMAIN st[n - 1].found
  <2>1. n - 1 \in 0..(n - 1) /\ m <= n - 1
    BY <1>2
  <2> QED  BY <1>9, <2>1
<1>11. st[n] \in Knowledge /\ Answered(st[n].found, a, last)
  <2>1. st[n] = Followed(st[n - 1], a)
    BY <1>2, <1>3 DEF a
  <2> DEFINE prior == st[n - 1]
  <2>2. prior \in Knowledge /\ KnownAs(prior.regs, Insn(a).base, last) /\ a \notin DOMAIN prior.found
    BY <1>5, <1>10
  <2> HIDE DEF prior
  <2>3. Followed(prior, a) \in Knowledge
    BY <1>5, <2>2, FollowedIs
  <2>4. Answered(Followed(prior, a).found, a, last)
    BY <1>5, <2>2, AskIsAnswered
  <2> QED  BY <2>1, <2>3, <2>4 DEF prior
<1> DEFINE Z == [k \in 0..N |-> {s \in Knowledge : n <= k => Answered(s.found, a, last)}]
<1>12. st[0] \in Z[0]
  BY <1>2, <1>3
<1>13. ASSUME NEW k \in 1..N, st[k - 1] \in Z[k - 1] PROVE st[k] \in Z[k]
  <2>1. k - 1 \in 0..N /\ k \in 0..N /\ st[k] \in Knowledge /\ list[k] \in Nat
    BY <1>1, <1>2
  <2>2. CASE k = n
    BY <1>11, <2>1, <2>2
  <2>3. CASE k < n
    <3>1. ~ (n <= k)
      BY <1>2, <2>3
    <3> QED  BY <2>1, <3>1
  <2>4. CASE n < k
    <3> DEFINE s == st[k - 1]
               new == Followed(s, list[k])
    <3>1. n <= k - 1 /\ list[k] # a
      BY <1>2, <1>4, <2>4
    <3>2. s \in Knowledge /\ Answered(s.found, a, last)
      BY <1>13, <2>1, <3>1
    <3>3. st[k] = new
      BY <1>3
    <3> HIDE DEF s
    <3>4. /\ new \in Knowledge
          /\ DOMAIN new.found \subseteq DOMAIN s.found \cup {list[k]}
          /\ DOMAIN s.found \subseteq DOMAIN new.found
          /\ \A b \in DOMAIN s.found \ {list[k]} : new.found[b] = s.found[b]
      BY <2>1, <3>2, FollowedKeeps
    <3> HIDE DEF new
    <3>5. Answered(new.found, a, last)
      BY <3>1, <3>2, <3>4 DEF Answered
    <3> QED  BY <2>1, <3>3, <3>4, <3>5
  <2> QED  BY <1>2, <2>2, <2>3, <2>4
<1>14. st[N] \in Z[N]
  <2> HIDE DEF Z
  <2>1. \A k \in 0..N : st[k] \in Z[k]
    BY <1>2, <1>12, <1>13, StepsKeepEach
  <2> QED  BY <1>2, <2>1
<1>15. Answered(st[N].found, a, last)
  BY <1>2, <1>14
<1> QED  BY <1>1, <1>15 DEF N, a, last

(* What is found in a function: block after block, each once.                *)
Here(list) == {list[k] : k \in 1..Len(list)}
ListOf(f, k) == cfg[f].blocks[cfg[f].order[k]].list
Nothing == [regs |-> <<>>, found |-> <<>>]

LEMMA FoundIs ==
  ASSUME NEW f, Graph(cfg[f])
  PROVE  LET n == Len(cfg[f].order)
         IN /\ n \in Nat
            /\ \A k \in 1..n : ListOf(f, k) \in Seq(Nat)
            /\ \E g \in [0..n -> Knowledge] :
                 /\ g[0] = Nothing /\ g[n].found = Found(f)
                 /\ \A k \in 1..n : g[k] = ThroughBlock(ListOf(f, k), g[k - 1])
<1> DEFINE n == Len(cfg[f].order)
           Is(st) == st = [k \in 0..n |-> IF k = 0 THEN Nothing
                                          ELSE ThroughBlock(ListOf(f, k), st[k - 1])]
           st == CHOOSE s : Is(s)
           F == [m \in 1..n |-> [s \in Knowledge |-> ThroughBlock(ListOf(f, m), s)]]
<1>1. n \in Nat /\ \A k \in 1..n : cfg[f].order[k] \in DOMAIN cfg[f].blocks
  BY DEF Graph, Lists
<1>2. \A k \in 1..n : ListOf(f, k) \in Seq(Nat)
  BY <1>1 DEF Graph, ListOf
<1>3. Found(f) = st[n].found
  BY DEF Found, ListOf, Nothing
<1> HIDE DEF n
<1>4. Nothing \in Knowledge
  <2>1. <<>> \in [{} -> Constants] /\ <<>> \in [{} -> Targeted]
    OBVIOUS
  <2>2. <<>> \in Known /\ <<>> \in Resolutions
    BY <2>1 DEF Known, Resolutions
  <2> QED  BY <2>2 DEF Knowledge, Nothing
<1>5. \A m \in 1..n : \A s \in Knowledge : ThroughBlock(ListOf(f, m), s) \in Knowledge
  BY <1>2, BlockFinds
<1>6. \E s : Is(s)
  <2>1. \A m \in 1..n : \A s \in Knowledge :
          F[m][s] \in Knowledge /\ F[m][s] = ThroughBlock(ListOf(f, m), s)
    BY <1>5
  <2> HIDE DEF F
  <2>2. PICK g \in [0..n -> Knowledge] : IsSteps(g, n, Nothing, F)
    BY <1>1, <1>4, <2>1, StepsIn
  <2>3. \A m \in 0..n : m # 0 => F[m][g[m - 1]] = ThroughBlock(ListOf(f, m), g[m - 1])
    <3> SUFFICES ASSUME NEW m \in 0..n, m # 0
                 PROVE  F[m][g[m - 1]] = ThroughBlock(ListOf(f, m), g[m - 1])
      OBVIOUS
    <3>1. m \in 1..n /\ m - 1 \in 0..n
      BY <1>1
    <3>2. g[m - 1] \in Knowledge
      BY <2>2, <3>1
    <3> QED  BY <2>1, <3>1, <3>2
  <2>4. Is(g)
    BY <2>2, <2>3 DEF IsSteps
  <2> QED  BY <2>4
<1>7. Is(st)
  BY <1>6
<1> HIDE DEF st
<1>8. /\ st[0] = Nothing /\ \A m \in 1..n : st[m] = ThroughBlock(ListOf(f, m), st[m - 1])
      /\ st = [m \in 0..n |-> st[m]]
  BY <1>1, <1>7
<1>9. \A m \in 0..n : st[m] \in Knowledge
  <2>1. \A m \in 1..n : st[m - 1] \in Knowledge => st[m] \in Knowledge
    BY <1>5, <1>8
  <2>2. st[0] \in Knowledge
    BY <1>4, <1>8
  <2> QED  BY <1>1, <2>1, <2>2, StepsKeep
<1>10. st \in [0..n -> Knowledge]
  BY <1>8, <1>9
<1> QED  BY <1>1, <1>2, <1>3, <1>8, <1>10 DEF n

LEMMA FoundWithin ==
  ASSUME NEW f, Graph(cfg[f])
  PROVE  /\ Found(f) \in Resolutions
         /\ \A a \in DOMAIN Found(f) :
              \E s \in DOMAIN cfg[f].blocks : a \in Here(cfg[f].blocks[s].list)
<1> DEFINE n == Len(cfg[f].order)
           All == UNION {Here(cfg[f].blocks[s].list) : s \in DOMAIN cfg[f].blocks}
           X == {s \in Knowledge : DOMAIN s.found \subseteq All}
<1>1. n \in Nat /\ \A k \in 1..n : ListOf(f, k) \in Seq(Nat)
  BY FoundIs
<1>2. PICK g \in [0..n -> Knowledge] :
        /\ g[0] = Nothing /\ g[n].found = Found(f)
        /\ \A k \in 1..n : g[k] = ThroughBlock(ListOf(f, k), g[k - 1])
  BY FoundIs
<1>3. \A k \in 1..n : Here(ListOf(f, k)) \subseteq All
  <2>1. \A k \in 1..n : cfg[f].order[k] \in DOMAIN cfg[f].blocks
    BY DEF Graph, Lists
  <2> QED  BY <2>1 DEF ListOf
<1> HIDE DEF n, All
<1>4. g[0] \in X
  <2>1. 0 \in 0..n
    BY <1>1
  <2>2. g[0] \in Knowledge /\ DOMAIN g[0].found = {}
    BY <1>2, <2>1 DEF Nothing
  <2> QED  BY <2>2
<1>5. ASSUME NEW k \in 1..n, g[k - 1] \in X PROVE g[k] \in X
  <2> DEFINE s == g[k - 1]
             list == ListOf(f, k)
             new == ThroughBlock(list, s)
  <2>1. s \in Knowledge /\ DOMAIN s.found \subseteq All /\ list \in Seq(Nat)
        /\ Here(list) \subseteq All
    BY <1>1, <1>3, <1>5
  <2>2. g[k] = new
    BY <1>2
  <2> HIDE DEF s, list
  <2>3. new \in Knowledge /\ DOMAIN new.found \subseteq DOMAIN s.found \cup Here(list)
    BY <2>1, BlockFinds DEF Here
  <2> HIDE DEF new
  <2> QED  BY <2>1, <2>2, <2>3
<1>6. g[n] \in X
  <2> HIDE DEF X
  <2>1. \A k \in 0..n : g[k] \in X
    BY <1>1, <1>4, <1>5, StepsKeep
  <2> QED  BY <1>1, <2>1
<1>7. g[n].found \in Resolutions /\ DOMAIN g[n].found \subseteq All
  BY <1>6 DEF Knowledge
<1> QED  BY <1>2, <1>7 DEF All

\* of the blocks of f only s lists a
OnlyIn(f, a, s) == \A t \in DOMAIN cfg[f].blocks : a \in Here(cfg[f].blocks[t].list) => t = s

LEMMA FoundAnswers ==
  ASSUME NEW f, Graph(cfg[f]), NEW s \in DOMAIN cfg[f].blocks,
         NEW list, list = cfg[f].blocks[s].list,
         NEW n \in 1..Len(list), NEW m \in 1..(n - 1), AsksFor(list, n, m),
         OnlyIn(f, list[n], s)
  PROVE  Answered(Found(f), list[n], Insn(list[m]))
<1> DEFINE N == Len(cfg[f].order)
           a == list[n]
           last == Insn(list[m])
<1>1. N \in Nat /\ \A k \in 1..N : ListOf(f, k) \in Seq(Nat)
  BY FoundIs
<1>2. PICK g \in [0..N -> Knowledge] :
        /\ g[0] = Nothing /\ g[N].found = Found(f)
        /\ \A k \in 1..N : g[k] = ThroughBlock(ListOf(f, k), g[k - 1])
  BY FoundIs
<1>3. PICK j \in 1..N : cfg[f].order[j] = s
  BY DEF Graph, Lists
<1>4. list \in Seq(Nat) /\ Rising(list, cfg[f].blocks[s].end) /\ ListOf(f, j) = list
  BY <1>3 DEF Graph, ListOf
<1>5. ASSUME NEW k \in 1..N, k # j PROVE a \notin Here(ListOf(f, k))
  <2>1. cfg[f].order[k] \in DOMAIN cfg[f].blocks /\ cfg[f].order[k] # s
    <3>1. j < k \/ k < j
      BY <1>1, <1>5
    <3> QED  BY <1>3, <3>1 DEF Graph, Lists
  <2> QED  BY <2>1 DEF ListOf, OnlyIn
<1> HIDE DEF N
<1>6. a \in Here(list) /\ a \in Nat
  <2>1. a = list[n] /\ n \in 1..Len(list) /\ list \in Seq(Nat)
    BY <1>4
  <2> HIDE DEF a
  <2>2. list[n] \in Nat
    BY <2>1, ElementOfSeq
  <2> QED  BY <2>1, <2>2 DEF Here
<1>7. \A st \in Knowledge : a \notin DOMAIN st.found
                              => Answered(ThroughBlock(list, st).found, a, last)
  BY <1>4, BlockAnswers
<1> HIDE DEF a, last
<1> DEFINE P == {st \in Knowledge : a \notin DOMAIN st.found}
           Q == {st \in Knowledge : Answered(st.found, a, last)}
<1>8. g[0] \in P
  <2>1. g[0] \in Knowledge /\ g[0].found = <<>>
    <3>1. 0 \in 0..N
      BY <1>1
    <3>2. Nothing.found = <<>>
      BY DEF Nothing
    <3> QED  BY <1>2, <3>1, <3>2
  <2>2. DOMAIN <<>> = {}
    OBVIOUS
  <2> QED  BY <2>1, <2>2
<1>9. ASSUME NEW k \in 1..N, NEW st \in Knowledge, st = g[k - 1]
      PROVE  /\ g[k] \in Knowledge
             /\ k # j => /\ st \in P => g[k] \in P
                         /\ st \in Q => g[k] \in Q
             /\ k = j /\ st \in P => g[k] \in Q
  <2> DEFINE here == Here(ListOf(f, k))
             new == ThroughBlock(ListOf(f, k), st)
  <2>1. ListOf(f, k) \in Seq(Nat)
    BY <1>1
  <2>2. g[k] = new
    BY <1>2, <1>9
  <2>3. /\ new \in Knowledge
        /\ DOMAIN new.found \subseteq DOMAIN st.found \cup here
        /\ \A b \in DOMAIN st.found \ here : b \in DOMAIN new.found /\ new.found[b] = st.found[b]
    BY <2>1, BlockFinds DEF Here
  <2>4. k # j => a \notin here
    BY <1>5
  <2>5. k = j /\ a \notin DOMAIN st.found => Answered(new.found, a, last)
    BY <1>4, <1>7
  <2> HIDE DEF new, here
  <2>6. k # j /\ a \notin DOMAIN st.found => a \notin DOMAIN new.found
    BY <2>3, <2>4
  <2>7. k # j /\ Answered(st.found, a, last) => Answered(new.found, a, last)
    BY <2>3, <2>4 DEF Answered
  <2> QED  BY <2>2, <2>3, <2>5, <2>6, <2>7
<1> HIDE DEF P, Q
<1>10. /\ \A k \in 1..N : k # j /\ g[k - 1] \in P => g[k] \in P
       /\ \A k \in 1..N : k # j /\ g[k - 1] \in Q => g[k] \in Q
       /\ g[j - 1] \in P => g[j] \in Q
  <2>1. \A st \in P \cup Q : st \in Knowledge
    BY DEF P, Q
  <2>2. \A k \in 1..N : g[k - 1] \in P \cup Q => g[k - 1] \in Knowledge
    BY <2>1
  <2> QED  BY <1>9, <2>2
<1>11. Answered(g[N].found, a, last)
  <2>1. g[N] \in Q
    BY <1>1, <1>8, <1>10, TurnsAt
  <2> QED  BY <2>1 DEF Q
<1> QED  BY <1>2, <1>11 DEF a, last
----------------------------------------------------------------------------
(* The resolution of targets.  What is found in a function depends on its code *)
(* alone, and what is recorded is what was found in the functions done so far. *)
LEMMA FoundStays ==
  ASSUME prog' = prog, cfg' = cfg, NEW f
  PROVE  Found(f)' = Found(f)
BY DEF Found, ThroughBlock, Followed, Assigned, AfterCall, Resolved, Insn, HasBytes, Word,
       Byte, IsCode, In, Size

IsFound(done) ==
  /\ \A a \in DOMAIN resolved :
       \E f \in done : a \in DOMAIN Found(f) /\ resolved[a] = Found(f)[a]
  /\ \A f \in done : DOMAIN Found(f) \subseteq DOMAIN resolved
Targeting ==
  /\ pass \notin {"dataflow", "loops", "structs", "sigs", "data", "names", "main", "done"} =>
       DOMAIN resolved = {}
  /\ pass = "loops" => left = {}
  /\ pass = "dataflow" => left \subseteq Funcs
  /\ pass \in {"dataflow", "loops"} => IsFound(Funcs \ left)

LEMMA DataflowKeeps == Targeting /\ (\E f \in left : Dataflow(f)) => Targeting'
<1> SUFFICES ASSUME Targeting, NEW f \in left, Dataflow(f) PROVE Targeting'
  OBVIOUS
<1>1. /\ pass = "dataflow" /\ pass' = "dataflow" /\ prog' = prog /\ cfg' = cfg
      /\ left' = left \ {f} /\ resolved' = Over(resolved, Found(f))
  BY DEF Dataflow, code
<1>2. Funcs' = Funcs /\ f \in Funcs /\ left \subseteq Funcs /\ IsFound(Funcs \ left)
  BY <1>1 DEF Targeting, Funcs
<1>3. Funcs \ left' = (Funcs \ left) \cup {f}
  BY <1>1, <1>2
<1>4. \A g : Found(g)' = Found(g)
  BY <1>1, FoundStays
<1>5. ASSUME NEW a \in DOMAIN resolved'
      PROVE  \E g \in Funcs \ left' : a \in DOMAIN Found(g) /\ resolved'[a] = Found(g)[a]
  <2>1. a \in DOMAIN resolved \cup DOMAIN Found(f)
        /\ resolved'[a] = IF a \in DOMAIN Found(f) THEN Found(f)[a] ELSE resolved[a]
    BY <1>1, <1>5 DEF Over
  <2>2. CASE a \in DOMAIN Found(f)
    BY <1>3, <2>1, <2>2
  <2>3. CASE a \notin DOMAIN Found(f)
    BY <1>2, <1>3, <2>1, <2>3 DEF IsFound
  <2> QED  BY <2>2, <2>3
<1>6. DOMAIN resolved' = DOMAIN resolved \cup DOMAIN Found(f)
  BY <1>1 DEF Over
<1>7. \A g \in Funcs \ left' : DOMAIN Found(g) \subseteq DOMAIN resolved'
  BY <1>2, <1>3, <1>6 DEF IsFound
<1>8. IsFound(Funcs \ left)'
  <2> DEFINE here(g) == Found(g)
  <2>1. /\ \A a \in DOMAIN resolved' : \E g \in Funcs' \ left' :
             a \in DOMAIN here(g)' /\ resolved'[a] = here(g)'[a]
        /\ \A g \in Funcs' \ left' : DOMAIN here(g)' \subseteq DOMAIN resolved'
    BY <1>2, <1>4, <1>5, <1>7
  <2> QED  BY <2>1 DEF IsFound
<1> QED  BY <1>1, <1>2, <1>8 DEF Targeting

LEMMA FoundSoFarStays ==
  ASSUME prog' = prog, cfg' = cfg, left' = left, resolved' = resolved, IsFound(Funcs \ left)
  PROVE  IsFound(Funcs \ left)'
<1>1. Funcs' = Funcs /\ \A g : Found(g)' = Found(g)
  BY FoundStays DEF Funcs
<1> QED  BY <1>1 DEF IsFound

LEMMA ConventionsStart == Targeting /\ CallingConventions => Targeting'
<1> SUFFICES ASSUME Targeting, CallingConventions PROVE Targeting'
  OBVIOUS
<1>1. /\ pass = "convs" /\ pass' = "dataflow" /\ prog' = prog /\ left' = Funcs
      /\ resolved' = resolved
  BY DEF CallingConventions, code
<1>2. Funcs' = Funcs /\ DOMAIN resolved = {} /\ Funcs' \ left' = {}
  BY <1>1 DEF Funcs, Targeting
<1>3. IsFound(Funcs \ left)'
  BY <1>1, <1>2 DEF IsFound
<1> QED  BY <1>1, <1>2, <1>3 DEF Targeting

THEOREM TargetingHolds == Spec => []Targeting
<1>1. Init => Targeting
  <2> SUFFICES ASSUME Init PROVE Targeting
    OBVIOUS
  <2>1. resolved = <<>> /\ pass = "cfgs" /\ DOMAIN <<>> = {}
    BY DEF Init
  <2> QED  BY <2>1 DEF Targeting
<1>2. Targeting /\ [Next]_vars => Targeting'
  <2> SUFFICES ASSUME Targeting, [Next]_vars PROVE Targeting'
    OBVIOUS
  <2>0. ASSUME UNCHANGED resolved,
               pass \notin {"dataflow", "loops", "structs", "sigs", "data", "names", "main", "done"},
               pass' \notin {"dataflow", "loops", "structs", "sigs", "data", "names", "main", "done"}
        PROVE  Targeting'
    BY <2>0 DEF Targeting
  <2>1. ASSUME pass' \in {"structs", "sigs", "data", "names", "main", "done"} PROVE Targeting'
    BY <2>1 DEF Targeting
  <2>2. CASE UNCHANGED vars
    <3>1. UNCHANGED <<pass, prog, cfg, left, resolved>>
      BY <2>2 DEF vars, code, facts
    <3> QED  BY <3>1, FoundSoFarStays DEF Targeting, Funcs
  <2>3. CASE EndDataflow
    <3>1. UNCHANGED <<prog, cfg, left, resolved>> /\ pass = "dataflow" /\ pass' = "loops"
          /\ left = {}
      BY <2>3 DEF EndDataflow, code, facts
    <3> QED  BY <3>1, FoundSoFarStays DEF Targeting, Funcs
  <2>4. CASE BuildCfgs \/ RemoveJunk \/ DetectSwitches \/ BuildXrefs \/ FindStrings
             \/ FindStringRefs \/ DetectVtables \/ DetectGlobals \/ DetectNoReturn \/ EndTailCalls
    BY <2>0, <2>4 DEF BuildCfgs, RemoveJunk, DetectSwitches, BuildXrefs, FindStrings,
         FindStringRefs, DetectVtables, DetectGlobals, DetectNoReturn, EndTailCalls, facts
  <2>5. CASE DetectLoops \/ RecoverStructs \/ Signatures \/ PopulateData \/ ApplyNames \/ DetectMain
    BY <2>1, <2>5 DEF DetectLoops, RecoverStructs, Signatures, PopulateData, ApplyNames, DetectMain
  <2>6. CASE CallingConventions
    BY <2>6, ConventionsStart
  <2>7. ASSUME NEW b \in left, TailCall(b) PROVE Targeting'
    BY <2>0, <2>7 DEF TailCall, facts
  <2>8. ASSUME NEW f \in left, Dataflow(f) PROVE Targeting'
    BY <2>8, DataflowKeeps
  <2> QED  BY <2>2, <2>3, <2>4, <2>5, <2>6, <2>7, <2>8 DEF Next
<1> QED  BY <1>1, <1>2, PTL DEF Spec

(* A target recorded for a jump or call through memory at a register is the one *)
(* the machine reaches, where the register was last changed in the same block  *)
(* and no change of it escaped the pass; and one is recorded when the last change *)
(* is a constant that was not forgotten since and enough bytes can be read.   *)
THEOREM TargetsAreRight == Spec => []ResolvedInBlock
<1>1. Flow /\ Targeting => ResolvedInBlock
  <2> SUFFICES ASSUME Flow, Targeting, pass = "loops" PROVE ResolvedInBlock
    BY DEF ResolvedInBlock
  <2>1. IsFound(Funcs) /\ \A g \in Funcs : Graph(cfg[g])
    BY DEF Flow, Targeting
  <2>2. ASSUME NEW c \in AllBlocks
        PROVE  /\ c[1] \in Funcs /\ c[2] \in DOMAIN cfg[c[1]].blocks /\ c = <<c[1], c[2]>>
               /\ At(c) = cfg[c[1]].blocks[c[2]]
    <3>1. PICK g \in Funcs, s \in UNION {DOMAIN cfg[h].blocks : h \in Funcs} : c = <<g, s>>
      BY DEF AllBlocks, BlockList
    <3>2. c[2] \in DOMAIN cfg[c[1]].blocks
      BY DEF AllBlocks
    <3>3. c[1] = g /\ c = <<c[1], c[2]>>
      BY <3>1
    <3> QED  BY <3>2, <3>3 DEF At
  <2>3. ASSUME NEW g \in Funcs, NEW s \in DOMAIN cfg[g].blocks
        PROVE  <<g, s>> \in AllBlocks
               /\ ToSet(At(<<g, s>>).list) = Here(cfg[g].blocks[s].list)
    <3> DEFINE list == cfg[g].blocks[s].list
               c == <<g, s>>
    <3>1. s \in UNION {DOMAIN cfg[h].blocks : h \in Funcs}
      OBVIOUS
    <3>2. c \in BlockList /\ c[1] = g /\ c[2] = s
      BY <3>1 DEF BlockList
    <3>3. list \in Seq(Nat)
      BY <2>1 DEF Graph
    <3> HIDE DEF c
    <3>4. c \in AllBlocks /\ At(c).list = list
      BY <3>2 DEF AllBlocks, At
    <3> HIDE DEF list
    <3>5. ToSet(list) = Here(list)
      BY <3>3 DEF ToSet, Here
    <3> QED  BY <3>4, <3>5 DEF c, list
  <2>4. ASSUME NEW b \in AllBlocks, NEW list, list = At(b).list, NEW n \in 1..Len(list),
               NEW r, r = Insn(list[n]).base,
               \A c \in AllBlocks : list[n] \in ToSet(At(c).list) => c = b,
               Asks(list[n]), {k \in 1..(n - 1) : Matters(Insn(list[k]), r)} # {}
        PROVE  Answered(resolved, list[n],
                        Insn(list[Max({k \in 1..(n - 1) : Matters(Insn(list[k]), r)})]))
    <3> DEFINE f == b[1]
               s == b[2]
               matters == {k \in 1..(n - 1) : Matters(Insn(list[k]), r)}
               m == Max(matters)
               last == Insn(list[m])
    <3>1. f \in Funcs /\ s \in DOMAIN cfg[f].blocks /\ Graph(cfg[f])
          /\ list = cfg[f].blocks[s].list /\ list \in Seq(Nat)
      BY <2>1, <2>2, <2>4 DEF At, Graph
    <3>2. m \in matters /\ \A k \in matters : k <= m
      <4>1. n \in Nat /\ matters \subseteq Nat /\ IsFiniteSet(matters) /\ matters # {}
        <5>1. n \in Nat /\ 1..(n - 1) \subseteq Nat
          BY <3>1
        <5>2. IsFiniteSet(1..(n - 1))
          BY <5>1, FS_Interval
        <5> QED  BY <2>4, <5>1, <5>2, FS_Subset
      <4> HIDE DEF matters
      <4>2. \E x \in matters : \A y \in matters : y <= x
        BY <4>1, FiniteHasLast
      <4>3. \E x \in matters : \A y \in matters : x >= y
        BY <4>1, <4>2
      <4>4. m \in matters /\ \A y \in matters : m >= y
        BY <4>3 DEF Max
      <4> QED  BY <4>1, <4>4
    <3> HIDE DEF m
    <3>3. m \in 1..(n - 1) /\ AsksFor(list, n, m)
      <4>1. m \in 1..(n - 1) /\ Matters(last, r)
        BY <3>2
      <4>2. ASSUME NEW k \in (m + 1)..(n - 1), Matters(Insn(list[k]), r) PROVE FALSE
        <5>1. n \in Nat /\ m \in Nat
          BY <3>1, <4>1
        <5>2. k \in 1..(n - 1) /\ m < k
          BY <4>1, <5>1
        <5>3. k \in matters
          BY <4>2, <5>2
        <5> QED  BY <3>2, <5>1, <5>2, <5>3
      <4> QED  BY <2>4, <4>1, <4>2 DEF AsksFor
    <3>4. OnlyIn(f, list[n], s)
      <4> SUFFICES ASSUME NEW t \in DOMAIN cfg[f].blocks,
                          list[n] \in Here(cfg[f].blocks[t].list)
                   PROVE  t = s
        BY DEF OnlyIn
      <4>1. <<f, t>> \in AllBlocks /\ list[n] \in ToSet(At(<<f, t>>).list)
        BY <2>3, <3>1
      <4>2. <<f, t>> = b
        BY <2>4, <4>1
      <4> QED  BY <4>2
    <3> HIDE DEF f, s, matters
    <3>5. Answered(Found(f), list[n], last)
      BY <2>4, <3>1, <3>3, <3>4, FoundAnswers
    <3>6. \A g \in Funcs : list[n] \in DOMAIN Found(g) => g = f
      <4> SUFFICES ASSUME NEW g \in Funcs, list[n] \in DOMAIN Found(g) PROVE g = f
        OBVIOUS
      <4>1. PICK t \in DOMAIN cfg[g].blocks : list[n] \in Here(cfg[g].blocks[t].list)
        BY <2>1, FoundWithin
      <4>2. <<g, t>> \in AllBlocks /\ list[n] \in ToSet(At(<<g, t>>).list)
        BY <2>3, <4>1
      <4>3. <<g, t>> = b
        BY <2>4, <4>2
      <4> QED  BY <4>3 DEF f
    <3>7. /\ list[n] \in DOMAIN resolved <=> list[n] \in DOMAIN Found(f)
          /\ list[n] \in DOMAIN resolved => resolved[list[n]] = Found(f)[list[n]]
      BY <2>1, <3>1, <3>6 DEF IsFound
    <3> HIDE DEF last
    <3>8. Answered(resolved, list[n], last)
      BY <3>5, <3>7 DEF Answered
    <3> QED  BY <3>8 DEF last, m, matters
  <2>5. ASSUME NEW b \in AllBlocks, NEW list, list = At(b).list, NEW n \in 1..Len(list),
               NEW a, a = list[n], NEW base, base = Insn(a).base,
               NEW changing, changing = Changing(list, n),
               NEW m, m = Max(changing), NEW last, last = Insn(list[m]),
               NEW place, place = last.val + Insn(a).disp,
               AsksMemory(b, n),
               \A k \in changing : Insn(list[k]).kind = "call" \/ Names(Insn(list[k]), base)
        PROVE  /\ a \in DOMAIN resolved => LeadsThere(b, n)
               /\ (/\ last.kind \in {"mov", "lea"} /\ last.val # 0
                   /\ \A k \in (m + 1)..(n - 1) : ~ Names(Insn(list[k]), base)
                   /\ HasBytes(place, MinRead) /\ IsCode(Word(place)))
                  => a \in DOMAIN resolved
    <3> DEFINE named == {k \in 1..(n - 1) : Matters(Insn(list[k]), base)}
               l == Max(named)
    <3>1. list \in Seq(Nat) /\ n \in Nat
      <4>1. At(b).list \in Seq(Nat)
        BY <2>1, <2>2 DEF Graph
      <4>2. list \in Seq(Nat) /\ n \in 1..Len(list)
        BY <2>5, <4>1
      <4> QED  BY <4>2
    <3>2. /\ \A c \in AllBlocks : a \in ToSet(At(c).list) => c = b
          /\ Asks(a) /\ changing # {}
      BY <2>5 DEF AsksMemory, Asks
    <3>3. changing \subseteq named /\ named # {}
      BY <2>5, <3>2 DEF Changing, Matters, Names
    <3>4. Answered(resolved, a, Insn(list[l]))
      BY <2>4, <2>5, <3>2, <3>3
    <3>5. ASSUME NEW S, S \subseteq 1..(n - 1), S # {}
          PROVE  Max(S) \in S /\ \A k \in S : k <= Max(S)
      <4>1. S \subseteq Nat /\ IsFiniteSet(S)
        <5>1. 1..(n - 1) \subseteq Nat /\ IsFiniteSet(1..(n - 1))
          BY <3>1, FS_Interval
        <5> QED  BY <3>5, <5>1, FS_Subset
      <4>2. \E x \in S : \A y \in S : y <= x
        BY <3>5, <4>1, FiniteHasLast
      <4>3. \E x \in S : \A y \in S : x >= y
        BY <4>1, <4>2
      <4>4. Max(S) \in S /\ \A y \in S : Max(S) >= y
        BY <4>3 DEF Max
      <4> QED  BY <4>1, <4>4
    <3>6. changing \subseteq 1..(n - 1) /\ named \subseteq 1..(n - 1)
      BY <2>5 DEF Changing
    <3> HIDE DEF named
    <3>7. m \in changing /\ \A k \in changing : k <= m
      BY <2>5, <3>2, <3>5, <3>6
    <3>8. l \in named /\ \A k \in named : k <= l
      BY <3>3, <3>5, <3>6
    <3> HIDE DEF l
    <3>9. m \in Nat /\ l \in Nat /\ m \in 1..(n - 1) /\ l \in 1..(n - 1) /\ m <= l
      BY <3>1, <3>3, <3>6, <3>7, <3>8
    <3>10. ASSUME Written(Insn(list[l])) PROVE l = m /\ Insn(list[l]).reg = base
      <4>1. Matters(Insn(list[l]), base)
        BY <3>8 DEF named
      <4>2. Insn(list[l]).kind \in {"mov", "lea"} /\ Insn(list[l]).reg = base
        BY <3>10, <4>1 DEF Written, Matters
      <4>3. l \in changing
        BY <2>5, <3>9, <4>2 DEF Changing, Changed
      <4> QED  BY <3>7, <3>9, <4>2, <4>3
    <3>11. ASSUME a \in DOMAIN resolved PROVE LeadsThere(b, n)
      <4>1. Written(Insn(list[l])) /\ resolved[a] = Word(Insn(list[l]).val + Insn(a).disp)
        BY <3>4, <3>11 DEF Answered
      <4>2. l = m /\ last.reg = base
        BY <2>5, <3>10, <4>1
      <4> QED  BY <2>5, <4>1, <4>2 DEF LeadsThere, Written
    <3>12. ASSUME last.kind \in {"mov", "lea"}, last.val # 0,
                  \A k \in (m + 1)..(n - 1) : ~ Names(Insn(list[k]), base),
                  HasBytes(place, MinRead), IsCode(Word(place))
           PROVE  a \in DOMAIN resolved
      <4>1. l = m
        <5>1. ASSUME m < l PROVE FALSE
          <6>1. l \in (m + 1)..(n - 1) /\ l \notin changing
            BY <3>1, <3>7, <3>9, <5>1
          <6>2. Matters(Insn(list[l]), base) /\ ~ Names(Insn(list[l]), base)
            BY <3>8, <3>12, <6>1 DEF named
          <6>3. Insn(list[l]).kind = "call"
            BY <6>2 DEF Matters, Names
          <6>4. l \in changing
            BY <2>5, <3>9, <6>3 DEF Changing
          <6> QED  BY <6>1, <6>4
        <5> QED  BY <3>9, <5>1
      <4> QED  BY <2>5, <3>4, <3>12, <4>1 DEF Answered, Written
    <3> QED  BY <3>11, <3>12
  <2>6. ASSUME NEW b \in AllBlocks, NEW n \in 1..Len(At(b).list)
        PROVE  LET list == At(b).list
                   a == list[n]
                   base == Insn(a).base
                   changing == Changing(list, n)
                   m == Max(changing)
                   last == Insn(list[m])
                   place == last.val + Insn(a).disp
               IN (/\ AsksMemory(b, n) /\ Insn(a).index = 0
                   /\ \A k \in changing : Insn(list[k]).kind = "call" \/ Names(Insn(list[k]), base))
                  => /\ a \in DOMAIN resolved => LeadsThere(b, n)
                     /\ (/\ last.kind \in {"mov", "lea"} /\ last.val # 0
                         /\ \A k \in (m + 1)..(n - 1) : ~ Names(Insn(list[k]), base)
                         /\ HasBytes(place, MinRead) /\ IsCode(Word(place)))
                        => a \in DOMAIN resolved
    BY <2>5
  <2> QED  BY <2>6 DEF ResolvedInBlock
<1> QED  BY <1>1, FlowHolds, TargetingHolds, PTL
=============================================================================
