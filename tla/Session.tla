------------------------------- MODULE Session -------------------------------
(***************************************************************************)
(* The session of hype::App (src/ui/app.cpp): loading a file, the detached *)
(* threads that analyse and compare, and the handoff of their results to   *)
(* the panels in the frame loop.  App is used in two ways (src/main.cpp):  *)
(* with a window, where run() is the frame loop, or by McpServer, which    *)
(* calls open_file and reads the database and never runs a frame.          *)
(* Everything but the detached threads is one thread.  An image and its    *)
(* analyzer are made together and are one object here, numbered in order;  *)
(* the static database of a .NET file counts as an object as well.         *)
(***************************************************************************)
EXTENDS Naturals, Sequences, FiniteSets

CONSTANTS
  File,         \* the paths a user may open
  Kind,         \* what open_file finds there
  None,
  MaxObjects    \* bound: the files loaded, for comparison included

ASSUME SessionAssumption ==
  /\ Kind \in [File -> {"pe", "elf", "dotnet", "broken"}]
  /\ MaxObjects \in Nat /\ None \notin File /\ None \notin Nat

Object == 1..MaxObjects

VARIABLES
  mode,       \* "window" or "mcp": main
  path,       \* file_path_
  busy,       \* busy_
  ready,      \* analysis_done_
  diffReady,  \* diff_done_
  img,        \* img_
  anl,        \* analyzer_
  diffAnl,    \* diff_analyzer_
  panels,     \* what dv_, pv_, fp_, ... draw
  side,       \* what tp_ and sigmaker_ draw: only the handoff sets them
  late,       \* what clsv_ and lua_ point to: open_file does not reset them
  at,         \* where the detached thread made for an object stands
  on,         \* the object a detached thread works on
  compared,   \* diff_results_: the pair of objects
  origin,     \* the file each object was loaded from
  finished,   \* history: the objects whose analysis has ended
  handed,     \* history: the objects handed to the panels
  spoiled,    \* history: the objects that were moved while their analysis ran
  astray,     \* history: the last open_file failed after setting file_path_
  apart,      \* history: the comparisons that nothing has disturbed
  saved,      \* what each project file holds, by the path of its binary
  answer      \* the last answer of McpServer

flags == <<busy, ready, diffReady>>
views == <<panels, side, late>>
tasks == <<at, on, compared>>
past  == <<origin, finished, handed, spoiled, astray, apart>>
sessionVars  == <<mode, path, flags, img, anl, diffAnl, views, tasks, past, saved, answer>>

Loaded == DOMAIN origin
Fresh == Len(origin) + 1

SessionInit ==
  /\ mode \in {"window", "mcp"}
  /\ path = None
  /\ busy = FALSE /\ ready = FALSE /\ diffReady = FALSE
  /\ img = None /\ anl = None /\ diffAnl = None
  /\ panels = None /\ side = None /\ late = None
  /\ at = [o \in Object |-> "none"] /\ on = [o \in Object |-> None]
  /\ compared = <<None, None>>
  /\ origin = <<>> /\ finished = {} /\ handed = {} /\ spoiled = {}
  /\ astray = FALSE /\ apart = {}
  /\ saved = [f \in File |-> None]
  /\ answer = None
----------------------------------------------------------------------------
(* open_file.  The path and the panels change before anything can fail.     *)
LoadBroken(f) ==
  /\ Kind[f] = "broken"
  /\ panels' = None /\ side' = None
  /\ astray' = TRUE
  /\ UNCHANGED <<flags, img, anl, late, tasks, origin, finished, apart>>

(* A .NET file: its methods go to a database of their own, and there is no  *)
(* analyzer any more; what clsv_ and lua_ point to is deleted with it.      *)
LoadDotNet(f) ==
  /\ Kind[f] = "dotnet" /\ Fresh \in Object
  /\ origin' = Append(origin, f) /\ finished' = finished \union {Fresh}
  /\ img' = Fresh /\ anl' = None
  /\ panels' = Fresh /\ side' = None
  /\ busy' = FALSE /\ ready' = FALSE
  /\ astray' = FALSE /\ apart' = {}
  /\ UNCHANGED <<diffReady, late, tasks>>

(* ELF stands for Mach-O as well.                                          *)
LoadNative(f) ==
  /\ Kind[f] \in {"pe", "elf"} /\ Fresh \in Object
  /\ origin' = Append(origin, f)
  /\ img' = Fresh /\ anl' = Fresh
  /\ panels' = None /\ side' = None
  /\ busy' = TRUE /\ ready' = FALSE
  /\ at' = [at EXCEPT ![Fresh] = "analyse"]
  /\ on' = [on EXCEPT ![Fresh] = Fresh]
  /\ astray' = FALSE /\ apart' = {}
  /\ UNCHANGED <<diffReady, late, compared, finished>>

Load(f) ==
  /\ path' = f
  /\ LoadBroken(f) \/ LoadDotNet(f) \/ LoadNative(f)
  /\ UNCHANGED <<mode, diffAnl, handed, spoiled, saved>>

OpenFile(f) == ~busy /\ Load(f)

Open(f) == mode = "window" /\ OpenFile(f) /\ UNCHANGED answer

(* The detached thread: `analyzer_->run(); analysis_done_ = true;`.  No      *)
(* other load can replace analyzer_ before it is done.                     *)
Analyse(o) ==
  /\ at[o] = "analyse"
  /\ finished' = finished \union {on[o]}
  /\ at' = [at EXCEPT ![o] = "report"]
  /\ UNCHANGED <<mode, path, flags, img, anl, diffAnl, views, on, compared,
                 origin, handed, spoiled, astray, apart, saved, answer>>

Report(o) ==
  /\ at[o] = "report"
  /\ ready' = TRUE
  /\ at' = [at EXCEPT ![o] = "none"]
  /\ UNCHANGED <<mode, path, busy, diffReady, img, anl, diffAnl, views, on, compared,
                 past, saved, answer>>

(* The handoff at the top of a frame, on the thread of the window.          *)
PickupKeepingFlag ==   \* mutant: load() instead of exchange(false)
  /\ mode = "window" /\ ready
  /\ busy' = FALSE
  /\ panels' = anl /\ side' = anl /\ late' = anl
  /\ handed' = handed \union {anl}
  /\ UNCHANGED <<mode, path, ready, diffReady, img, anl, diffAnl, tasks,
                 origin, finished, spoiled, astray, apart, saved, answer>>

PickupPanelsOnly ==   \* mutant: lua_.init is forgotten
  /\ mode = "window" /\ ready
  /\ ready' = FALSE /\ busy' = FALSE
  /\ panels' = anl /\ side' = anl
  /\ handed' = handed \union {anl}
  /\ UNCHANGED <<mode, path, diffReady, img, anl, diffAnl, late, tasks,
                 origin, finished, spoiled, astray, apart, saved, answer>>

Pickup ==
  /\ mode = "window" /\ ready
  /\ ready' = FALSE /\ busy' = FALSE
  /\ panels' = anl /\ side' = anl /\ late' = anl
  /\ handed' = handed \union {anl}
  /\ UNCHANGED <<mode, path, diffReady, img, anl, diffAnl, tasks,
                 origin, finished, spoiled, astray, apart, saved, answer>>

(* rebase: it moves img_ and the database of analyzer_ and shows the panels  *)
(* that database.  It asks for both, but not whether a thread is filling    *)
(* the one, nor whether the last open_file failed.                         *)
Rebase ==
  /\ mode = "window" /\ img # None /\ anl # None
  /\ panels' = anl
  /\ spoiled' = IF anl \in finished THEN spoiled ELSE spoiled \union {anl}
  /\ apart' = {}
  /\ UNCHANGED <<mode, path, flags, img, anl, diffAnl, side, late, tasks,
                 origin, finished, handed, astray, saved, answer>>
----------------------------------------------------------------------------
(* compare_with: allowed whenever there is an analyzer, even while it or    *)
(* another comparison is at work.  Only the PE loader is tried; a file it   *)
(* refuses changes nothing.                                                *)
CompareWith(f) ==
  /\ mode = "window" /\ anl # None
  /\ Kind[f] \in {"pe", "dotnet"} /\ Fresh \in Object
  /\ origin' = Append(origin, f)
  /\ diffAnl' = Fresh
  /\ at' = [at EXCEPT ![Fresh] = "diffStart"]
  /\ apart' = IF busy THEN {} ELSE {Fresh}
  /\ UNCHANGED <<mode, path, flags, img, anl, views, on, compared,
                 finished, handed, spoiled, astray, saved, answer>>

(* The thread looks at diff_analyzer_ when it starts, not when it was made. *)
DiffStart(o) ==
  /\ at[o] = "diffStart"
  /\ on' = [on EXCEPT ![o] = diffAnl]
  /\ at' = [at EXCEPT ![o] = "diffRun"]
  /\ UNCHANGED <<mode, path, flags, img, anl, diffAnl, views, compared, past, saved, answer>>

DiffRun(o) ==
  /\ at[o] = "diffRun"
  /\ finished' = finished \union {on[o]}
  /\ at' = [at EXCEPT ![o] = "diffCompare"]
  /\ UNCHANGED <<mode, path, flags, img, anl, diffAnl, views, on, compared,
                 origin, handed, spoiled, astray, apart, saved, answer>>

(* And at both analyzers again when it compares, whatever they are by then: *)
(* the code is undefined when another file has taken the first away.        *)
DiffCompare(o) ==
  /\ at[o] = "diffCompare"
  /\ compared' = <<anl, diffAnl>>
  /\ at' = [at EXCEPT ![o] = "diffReport"]
  /\ UNCHANGED <<mode, path, flags, img, anl, diffAnl, views, on, past, saved, answer>>

DiffReport(o) ==
  /\ at[o] = "diffReport"
  /\ diffReady' = TRUE
  /\ at' = [at EXCEPT ![o] = "none"]
  /\ UNCHANGED <<mode, path, busy, ready, img, anl, diffAnl, views, on, compared,
                 past, saved, answer>>

DiffPickup ==
  /\ mode = "window" /\ diffReady
  /\ diffReady' = FALSE
  /\ UNCHANGED <<mode, path, busy, ready, img, anl, diffAnl, views, tasks, past, saved, answer>>
----------------------------------------------------------------------------
(* The project file is named after file_path_.                             *)
WriteProject == saved' = [saved EXCEPT ![path] = anl]

Save ==
  /\ mode = "window" /\ img # None /\ anl # None
  /\ WriteProject
  /\ UNCHANGED <<mode, path, flags, img, anl, diffAnl, views, tasks, past, answer>>

AutosaveWhileBusy ==   \* mutant: busy_ is not looked at
  /\ mode = "window" /\ img # None /\ anl # None
  /\ path # None
  /\ WriteProject
  /\ UNCHANGED <<mode, path, flags, img, anl, diffAnl, views, tasks, past, answer>>

(* autosave_tick, when a minute has passed.                                *)
Autosave ==
  /\ mode = "window" /\ img # None /\ anl # None
  /\ ~busy /\ path # None
  /\ WriteProject
  /\ UNCHANGED <<mode, path, flags, img, anl, diffAnl, views, tasks, past, answer>>
----------------------------------------------------------------------------
(* McpServer::handle_message.  open_file returns nothing: unless it throws,  *)
(* the answer is that the file was opened.                                 *)
McpOpen(f) ==
  /\ mode = "mcp"
  /\ \/ OpenFile(f)
     \/ busy /\ UNCHANGED <<mode, path, flags, img, anl, diffAnl, views, tasks, past, saved>>
  /\ answer' = [tool |-> "open_binary", text |-> f]

McpStatus ==
  /\ mode = "mcp"
  /\ answer' = [tool |-> "get_status",
                text |-> IF img = None THEN "none" ELSE IF busy THEN "busy" ELSE "idle"]
  /\ UNCHANGED <<mode, path, flags, img, anl, diffAnl, views, tasks, past, saved>>

(* The other tools answer from the database as it is, or that there is none.*)
McpTool ==
  /\ mode = "mcp"
  /\ answer' = [tool |-> "other", text |-> anl]
  /\ UNCHANGED <<mode, path, flags, img, anl, diffAnl, views, tasks, past, saved>>
----------------------------------------------------------------------------
Analysis(o) == Analyse(o) \/ Report(o)
Comparison(o) == DiffStart(o) \/ DiffRun(o) \/ DiffCompare(o) \/ DiffReport(o)

SessionNext ==
  \/ \E f \in File : Open(f) \/ CompareWith(f) \/ McpOpen(f)
  \/ \E o \in Object : Analysis(o) \/ Comparison(o)
  \/ Pickup \/ DiffPickup \/ Rebase \/ Save \/ Autosave
  \/ McpStatus \/ McpTool

Safe == SessionInit /\ [][SessionNext]_sessionVars

(* The window draws frames until it is closed, and the threads run: the      *)
(* passes of the analyzer are loops with bounds.                           *)
Fairness ==
  /\ WF_sessionVars(Pickup) /\ WF_sessionVars(DiffPickup)
  /\ \A o \in Object : WF_sessionVars(Analysis(o)) /\ WF_sessionVars(Comparison(o))

SessionSpec == Safe /\ Fairness
----------------------------------------------------------------------------
Stage == {"none", "analyse", "report",
          "diffStart", "diffRun", "diffCompare", "diffReport"}
Maybe(S) == S \union {None}

TypeOK ==
  /\ mode \in {"window", "mcp"}
  /\ path \in Maybe(File)
  /\ busy \in BOOLEAN /\ ready \in BOOLEAN /\ diffReady \in BOOLEAN
  /\ origin \in Seq(File) /\ Len(origin) <= MaxObjects
  /\ img \in Maybe(Loaded) /\ anl \in Maybe(Loaded) /\ diffAnl \in Maybe(Loaded)
  /\ panels \in Maybe(Loaded) /\ side \in Maybe(Loaded) /\ late \in Maybe(Loaded)
  /\ at \in [Object -> Stage]
  /\ on \in [Object -> Maybe(Loaded)]
  /\ compared \in Maybe(Loaded) \X Maybe(Loaded)
  /\ finished \subseteq Loaded
  /\ handed \subseteq Loaded /\ spoiled \subseteq Loaded
  /\ astray \in BOOLEAN
  /\ apart \subseteq Loaded
  /\ saved \in [File -> Maybe(Loaded)]

(* No panel ever draws from a database that has been replaced, nor from one *)
(* that a thread still fills, unless it was moved to another base meanwhile. *)
PanelsDrawFinished ==
  \A shown \in {panels, side} \ {None} : shown = img /\ shown \in finished \union spoiled

(* What the README promises of the handoff, whatever the user does: what the *)
(* panels draw has been analysed to the end.                               *)
HandoffIsAtomic == \A shown \in {panels, side} \ {None} : shown \in finished

(* When nothing is being analysed, everyone looks at the same file: the       *)
(* panels, unless an open that failed has blanked them, and the panels that  *)
(* need an analyzer at its analysis or at nothing.  So do scripts and the     *)
(* class view, which open_file leaves alone, while there is an analyzer; after *)
(* a .NET file they keep the one that was deleted.                         *)
ViewsAgree ==
  mode = "window" /\ ~busy /\ img # None =>
    /\ panels = img \/ (astray /\ panels = None)
    /\ side = anl \/ (astray /\ side = None)
    /\ anl # None => anl = img /\ late = anl

(* An analysis is handed over once, whole, and so on_analysis_complete       *)
(* fires once for each.                                                    *)
HandedOnce == [][Pickup => anl \in finished \ handed]_sessionVars

(* What is saved by itself is a finished analysis, under the name of its     *)
(* file, unless an open that failed has changed that name.                 *)
AutosaveIsWhole ==
  [][Autosave => saved'[path] \in finished /\ (astray \/ origin[saved'[path]] = path)]_sessionVars

(* A comparison that was started on a finished analysis, and not overtaken   *)
(* by another comparison, another file or a move, compares two finished     *)
(* analyses, the present one with the one it was started for.              *)
ComparesFinished ==
  [][\A o \in apart : DiffCompare(o) => anl \in finished /\ compared' = <<anl, o>> /\ o \in finished]_sessionVars
=============================================================================
