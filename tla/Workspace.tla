----------------------------- MODULE Workspace -----------------------------
(* What a user does between opening a file and the next (src/ui/app.cpp): moving
   about, naming, typing, patching, moving the image to another base, saving
   the project and exporting the patched file; the files of the project, with a
   crash while they are written; and the list of recent files.

   Addresses wrap at Space = 2^64.  The tables that the analysis fills are what
   the image has in Layout, by offset from its base.  All of it runs on the
   thread of the window, so a step is a whole handler; only a save is split,
   one step for each file, since the program may end in between.

   Left out: the tables that rebase moves as it moves names (strings, data
   items, the hex switch, imports and exports), and the panels that follow the
   cursor (sync_panels, the hex view).                                         *)
EXTENDS Navigation, ProjectFile

CONSTANTS
  Path,         \* binaries a user may open
  Space,        \* addresses: 0..Space-1
  Base,         \* the base a binary asks for
  NewBases,     \* bases the user may ask for
  Layout,       \* [segs, insns, funcs, refs, entry] of a binary, by offset
  FileBytes,    \* the bytes of a binary on disk
  Texts,        \* the texts a user types in
  Nop,
  RecentLimit,  \* 10
  None,
  JunkCounts,   \* what an unsigned variable may hold that no read has set
  MaxActs       \* bound: the handlers that run

\* every reference is made from an instruction (Analyzer::build_xrefs)
ASSUME LayoutAssumption ==
    /\ Space \in Nat \ {0}
    /\ Base \in [Path -> 0..(Space - 1)] /\ NewBases \subseteq 0..(Space - 1)
    /\ Layout.insns \subseteq Nat /\ Layout.entry \in Nat /\ IsFiniteSet(DOMAIN Layout.funcs)
    /\ Layout.refs \in Seq([from : Layout.insns, to : Nat])
    /\ Layout.segs \in Seq([va : Nat, size : Nat, off : Nat])
ASSUME JunkAssumption == JunkCounts \subseteq Nat

VARIABLES
  path,       \* file_path_, None when nothing is open
  img,        \* img_
  db,         \* analyzer_->db()
  marks,      \* bookmarks_
  selected,   \* TypesPanel::selected_
  recent,     \* recent_files_
  recentFile, \* hyperion_recent.txt
  disk,       \* the project of each binary: [cells, of] of each of its files
  saving,     \* the files a save has still to write
  applied,    \* history: the definition each type was applied as
  acts

desk == <<path, img, db, marks, selected, applied>>
shelf == <<recent, recentFile>>
vars == <<navigation, desk, shelf, disk, saving, acts>>

Moved(a, delta) == (a + delta) % Space
\* a table or a set of addresses moved
MoveKeys(t, delta) == [a \in {Moved(b, delta) : b \in DOMAIN t} |-> t[Moved(a, -delta)]]
MoveAll(S, delta)  == {Moved(a, delta) : a \in S}

\* a table with a value at an address; a table with the entries of another one
With(t, a, v)  == [b \in DOMAIN t \cup {a} |-> IF b = a THEN v ELSE t[b]]
Over(t, new)   == [b \in DOMAIN t \cup DOMAIN new |-> IF b \in DOMAIN new THEN new[b] ELSE t[b]]

InSegment(seg, a) == a >= seg.va /\ a < (seg.va + seg.size) % Space

Segments(base) == [i \in 1..Len(Layout.segs) |-> [Layout.segs[i] EXCEPT !.va = Moved(@, base)]]
Refs(base) == [i \in 1..Len(Layout.refs) |->
                 [from |-> Moved(Layout.refs[i].from, base), to |-> Moved(Layout.refs[i].to, base)]]
\* the references of a list by one end; of those with the same end only the
\* first is read
IndexBy(xrefs, End(_)) ==
    [a \in {End(xrefs[i]) : i \in 1..Len(xrefs)} |->
        xrefs[Min({i \in 1..Len(xrefs) : End(xrefs[i]) = a})]]
ByTo(xrefs)   == IndexBy(xrefs, LAMBDA x : x.to)
ByFrom(xrefs) == IndexBy(xrefs, LAMBDA x : x.from)

Analysed(base) ==
    [insns |-> MoveAll(Layout.insns, base),
     funcs |-> [e \in MoveAll(DOMAIN Layout.funcs, base) |->
                  [name |-> Layout.funcs[Moved(e, -base)].name,
                   blocks |-> MoveAll(Layout.funcs[Moved(e, -base)].blocks, base)]],
     xrefs |-> Refs(base), to |-> ByTo(Refs(base)), from |-> ByFrom(Refs(base)),
     names |-> [e \in MoveAll(DOMAIN Layout.funcs, base) |-> Layout.funcs[Moved(e, -base)].name],
     comments |-> << >>, patches |-> << >>, types |-> << >>,
     \* the built-in types have no fields and stay out; recover_structs adds one
     defs |-> [i \in {1} |-> [kind |-> "struct", fields |-> <<0>>, members |-> << >>, as |-> 1]],
     nextId |-> 2]

Closed == /\ path = None /\ img = None /\ db = None /\ marks = << >>
          /\ selected = 0 /\ applied = << >>

Init ==
    /\ NavigationInit /\ Closed
    /\ recent = << >> /\ recentFile = << >>
    /\ disk = [p \in Path |-> << >>] /\ saving = << >> /\ acts = 0

\* a handler runs to its end before the next one, a save included
Handler == saving = << >> /\ acts < MaxActs /\ acts' = acts + 1
Desk    == Handler /\ db # None

-----------------------------------------------------------------------------
(* Opening and navigating.                                                   *)
\* add_recent_file and save_recent_files
NewestFirst(p) == <<p>> \o SelectSeq(recent, LAMBDA q : q # p)
AddRecent(p) ==
    /\ recent' = SubSeq(NewestFirst(p), 1, IF Len(NewestFirst(p)) > RecentLimit THEN RecentLimit
                                           ELSE Len(NewestFirst(p)))
    /\ recentFile' = recent'

\* where the view goes for an address that is no instruction: to the first
\* instruction that refers to it
Landing(d, a) ==
    IF a \notin d.insns /\ a \in DOMAIN d.to THEN d.to[a].from ELSE a
GoTo(d, a) == NavigateTo(a, Landing(d, a))

\* open_file up to the pickup of its analysis; bookmarks, history and the
\* selected type of the file before stay
Open(p) ==
    /\ Handler
    /\ path' = p
    /\ img' = [base |-> Base[p], entry |-> Moved(Layout.entry, Base[p]), segs |-> Segments(Base[p])]
    /\ db' = Analysed(Base[p]) /\ applied' = << >>
    /\ AddRecent(p)
    /\ GoTo(db', img'.entry)
    /\ UNCHANGED <<marks, selected, disk, saving>>

Places == {Moved(img.base, o) : o \in Layout.places}

UserGoesTo(a) == Desk /\ GoTo(db, a) /\ UNCHANGED <<desk, shelf, disk, saving>>
GoToDialog    == db # None /\ \E a \in Places : UserGoesTo(a)
FollowBookmark == \E i \in 1..Len(marks) : UserGoesTo(marks[i])
NavBack    == Desk /\ Back /\ UNCHANGED <<desk, shelf, disk, saving>>
NavForward == Desk /\ Forward /\ UNCHANGED <<desk, shelf, disk, saving>>
UserClicks == Desk /\ (\E a \in db.insns : Click(a)) /\ UNCHANGED <<desk, shelf, disk, saving>>

-----------------------------------------------------------------------------
(* Edits at the cursor (their undo is in EditHistory).                       *)
Edit(new) ==
    /\ Desk /\ db' = new
    /\ UNCHANGED <<navigation, path, img, marks, selected, applied, shelf, disk, saving>>

Rename  == Desk /\ \E t \in Texts : Edit([db EXCEPT !.names = With(@, cursor, t)])
Comment == Desk /\ \E t \in Texts : Edit([db EXCEPT !.comments = With(@, cursor, t)])
\* cmd_nop on an instruction of one byte
Patch   == Desk /\ cursor \in db.insns /\ Edit([db EXCEPT !.patches = With(@, cursor, <<Nop>>)])
Bookmark ==
    /\ Desk /\ marks' = Append(marks, cursor)
    /\ UNCHANGED <<navigation, path, img, db, selected, applied, shelf, disk, saving>>

\* TypeSystem: ids are never given twice
Definition(kind) == [kind |-> kind, fields |-> << >>, members |-> << >>, as |-> db.nextId]
ReuseIds(kind) ==   \* mutant: the next id is one above the largest in use
    [db EXCEPT !.defs = With(@, 1 + Cardinality(DOMAIN @), Definition(kind)),
               !.nextId = @ + 1]
NewDefinition(kind) ==
    [db EXCEPT !.defs = With(@, db.nextId, Definition(kind)), !.nextId = @ + 1]
AddDefinition ==
    /\ Desk
    /\ \E kind \in {"struct", "enum"} : db' = NewDefinition(kind)
    /\ selected' \in DOMAIN db'.defs \ DOMAIN db.defs
    /\ UNCHANGED <<navigation, path, img, marks, applied, shelf, disk, saving>>
\* add_field and add_member do nothing for an id that is gone
ExtendDefinition ==
    /\ Desk /\ selected \in DOMAIN db.defs
    /\ Edit(IF db.defs[selected].kind = "struct"
            THEN [db EXCEPT !.defs[selected].fields = Append(@, 0)]
            ELSE [db EXCEPT !.defs[selected].members = Append(@, 0)])
\* a click in the list; the small button behind a field or a member
SelectDefinition ==
    /\ Desk /\ selected' \in DOMAIN db.defs \ {selected}
    /\ UNCHANGED <<navigation, path, img, db, marks, applied, shelf, disk, saving>>
ShrinkDefinition ==
    /\ Desk /\ selected \in DOMAIN db.defs
    /\ \/ /\ db.defs[selected].fields # << >>
          /\ Edit([db EXCEPT !.defs[selected].fields = Tail(@)])
       \/ /\ db.defs[selected].members # << >>
          /\ Edit([db EXCEPT !.defs[selected].members = Tail(@)])
DeleteDefinition ==
    /\ Desk /\ selected # 0 /\ selected' = 0
    /\ db' = [db EXCEPT !.defs = [i \in DOMAIN @ \ {selected} |-> @[i]]]
    /\ UNCHANGED <<navigation, path, img, marks, applied, shelf, disk, saving>>
ApplyType ==
    /\ Desk
    /\ \E id \in DOMAIN db.defs :
         /\ db' = [db EXCEPT !.types = With(@, cursor, id)]
         /\ applied' = With(applied, cursor, db.defs[id].as)
    /\ UNCHANGED <<navigation, path, img, marks, selected, shelf, disk, saving>>
RemoveApplied ==
    /\ Desk /\ cursor \in DOMAIN db.types
    /\ db' = [db EXCEPT !.types = [a \in DOMAIN @ \ {cursor} |-> @[a]]]
    /\ applied' = [a \in DOMAIN applied \ {cursor} |-> applied[a]]
    /\ UNCHANGED <<navigation, path, img, marks, selected, shelf, disk, saving>>

-----------------------------------------------------------------------------
(* Rebase: the image and the tables move, the types applied do not; then the
   references are indexed anew and the view goes to the entry.               *)
MoveTarget(x, delta) == [x EXCEPT !.to = Moved(@, delta)]   \* mutant: the source stays
MoveRef(x, delta) == [from |-> Moved(x.from, delta), to |-> Moved(x.to, delta)]
MoveBlocks(f, delta) == [f EXCEPT !.blocks = MoveAll(@, delta)]
LeavePatches(t, delta) == t     \* mutant: patches stay
MovePatches(t, delta) == MoveKeys(t, delta)

Rebased(d, delta) ==
    LET xrefs == [i \in 1..Len(d.xrefs) |-> MoveRef(d.xrefs[i], delta)]
    IN [d EXCEPT !.insns = MoveAll(@, delta),
                 !.funcs = [e \in MoveAll(DOMAIN @, delta) |->
                              MoveBlocks(@[Moved(e, -delta)], delta)],
                 !.names = MoveKeys(@, delta), !.comments = MoveKeys(@, delta),
                 !.xrefs = xrefs, !.to = ByTo(xrefs), !.from = ByFrom(xrefs),
                 !.patches = MovePatches(@, delta)]

Rebase(base) ==
    LET delta == base - img.base
    IN /\ Desk /\ base # img.base
       /\ img' = [base |-> base, entry |-> Moved(img.entry, delta),
                  segs |-> [i \in 1..Len(img.segs) |-> [img.segs[i] EXCEPT !.va = Moved(@, delta)]]]
       /\ db' = Rebased(db, delta)
       /\ marks' = [i \in 1..Len(marks) |-> Moved(marks[i], delta)]
       /\ GoTo(db', img'.entry)
       /\ UNCHANGED <<path, selected, applied, shelf, disk, saving>>

\* export_patched: the bytes of the file with the patches of the first segment
\* that contains them
Exported(i, d) ==
    LET home(a) == {k \in 1..Len(i.segs) : InSegment(i.segs[k], a)}
        seg(a) == i.segs[Min(home(a))]
        offset(a) == seg(a).off + a - seg(a).va
        hit(n) == {a \in DOMAIN d.patches : home(a) # {} /\ n - offset(a) \in 1..Len(d.patches[a])}
    IN [n \in 1..Len(FileBytes) |->
          IF hit(n) = {} THEN FileBytes[n]
          ELSE LET a == CHOOSE a \in hit(n) : TRUE IN d.patches[a][n - offset(a)]]

-----------------------------------------------------------------------------
(* The project.  A file of it is torn when the program ended while it was
   written; `of` is what it is made from.                                    *)
TruncateAll(p) ==   \* mutant: every file is opened, and emptied, before the first is written
    disk' = [disk EXCEPT ![p] = [f \in Range(Files) |-> [cells |-> << >>, of |-> None]]]
BeginSave(p) == disk' = disk
Save ==
    /\ Desk /\ BeginSave(path) /\ saving' = Files
    /\ UNCHANGED <<navigation, desk, shelf>>

\* the table a file is made of, as far as load keeps it
Table(f) == CASE f = "names" -> db.names [] f = "comments" -> db.comments [] f = "types" -> db.types
              [] OTHER -> << >>
\* the file that is next has new contents
Rewritten(p, cells, of) ==
    [disk EXCEPT ![p] = [f \in DOMAIN @ \cup {Head(saving)} |->
        IF f = Head(saving) THEN [cells |-> cells, of |-> of] ELSE disk[p][f]]]
WriteFile ==
    /\ saving # << >> /\ saving' = Tail(saving)
    /\ disk' = Rewritten(path, Contents(Head(saving), img, db), Table(Head(saving)))
    /\ UNCHANGED <<navigation, desk, shelf, acts>>

\* a file that cannot be opened ends the save, and nobody looks at its result
SaveFails == saving # << >> /\ saving' = << >> /\ UNCHANGED <<navigation, desk, shelf, disk, acts>>

\* the program ends; when it was writing, some of the cells have reached the disk
CloseDesk ==
    /\ path' = None /\ img' = None /\ db' = None /\ marks' = << >> /\ selected' = 0
    /\ applied' = << >> /\ saving' = << >>
    /\ hist' = << >> /\ pos' = -1 /\ cursor' = 0 /\ trail' = << >> /\ turn' = 0
Torn(p) ==
    \E k \in 0..Len(Contents(Head(saving), img, db)) :
        disk' = Rewritten(p, SubSeq(Contents(Head(saving), img, db), 1, k), None)
\* load_recent_files leaves out the files that are gone
Restarted ==
    /\ \E gone \in SUBSET Path : recent' = SelectSeq(recentFile, LAMBDA p : p \notin gone)
    /\ UNCHANGED recentFile
Crash == saving # << >> /\ Torn(path) /\ CloseDesk /\ Restarted /\ UNCHANGED acts
Quit  == Desk /\ CloseDesk /\ Restarted /\ UNCHANGED disk

\* Database::load into what is open.  No part of the program calls it yet.
Load(p) ==
    /\ Desk /\ "meta" \in DOMAIN disk[p]
    /\ \E junk \in {[count |-> n, addr |-> 0, text |-> [id |-> "zeros", len |-> 0]] : n \in JunkCounts} :
         LET cells(f) == IF f \in DOMAIN disk[p] THEN disk[p][f].cells ELSE <<0, 0>>
         IN /\ img' = [img EXCEPT !.base = Cell(cells("meta"), 1, junk.addr),
                                  !.entry = Cell(cells("meta"), 2, junk.addr)]
            /\ db' = [db EXCEPT !.names = Over(@, ReadTable(cells("names"), junk)),
                                !.comments = Over(@, ReadTable(cells("comments"), junk)),
                                !.types = Over(@, ReadApplied(cells("types"), junk))]
            /\ applied' = [a \in DOMAIN applied \ DOMAIN ReadApplied(cells("types"), junk) |-> applied[a]]
    /\ UNCHANGED <<navigation, path, marks, selected, shelf, disk, saving>>
LoadProject == Desk /\ Load(path)

OpenAny == \E p \in Path : Open(p)
RebaseTo == Desk /\ \E b \in NewBases : Rebase(b)
Next == \/ OpenAny \/ GoToDialog \/ FollowBookmark \/ NavBack \/ NavForward \/ UserClicks
        \/ Rename \/ Comment \/ Patch \/ Bookmark \/ AddDefinition \/ ExtendDefinition
        \/ SelectDefinition \/ ShrinkDefinition \/ DeleteDefinition \/ ApplyType
        \/ RemoveApplied \/ RebaseTo \/ Save \/ WriteFile \/ SaveFails
        \/ Crash \/ Quit \/ LoadProject

Spec == Init /\ [][Next]_vars

-----------------------------------------------------------------------------
(* An address that code refers to is shown by an instruction that refers to it,
   in the image as it lies: rebase moves the references with the listing, and
   indexes them anew (navigate_to, rebase).                                  *)
LandsOnCode == db # None => \A a \in DOMAIN db.to : Landing(db, a) \in db.insns

\* the end of every segment is an address
Fits(i) == \A k \in 1..Len(i.segs) : i.segs[k].va + i.segs[k].size < Space
(* Moving the image changes nothing of the patched file: segments and patches
   move alike (rebase, export_patched).  A segment that ends at the end of the
   address space contains nothing, so its patches are not exported.          *)
ExportUnmoved ==
    [][(\E b \in NewBases : db # None /\ Rebase(b)) /\ Fits(img) /\ Fits(img') =>
         Exported(img', db') = Exported(img, db)]_vars

Cut(t) == [a \in DOMAIN t |-> Written(t[a])]
Kept(p, f, Now(_), t) ==
    f \in DOMAIN disk[p] /\ disk[p][f].of # None => t' = Over(t, Now(disk[p][f].of))
(* A project is read as it was written: every file that a save finished gives
   back its table, whatever the others hold, and texts lose what their 16-bit
   length does not count (Database::save, Database::load).                   *)
LoadGivesSaved ==
    [][\A p \in Path : Desk /\ Load(p) =>
         /\ Kept(p, "names", Cut, db.names) /\ Kept(p, "comments", Cut, db.comments)
         /\ Kept(p, "types", LAMBDA s : s, db.types)]_vars

(* A crash costs one file of a project at most: files are rewritten one after
   the other (Database::save).                                               *)
CrashTearsOne ==
    [][\A p \in Path :
         Cardinality({f \in DOMAIN disk[p] : disk[p][f].of # None /\ disk'[p][f].of = None}) <= 1]_vars

(* A type applied to an address never turns into another one, whatever is
   deleted and defined in between (TypeSystem, TypesPanel).                  *)
NeverAnotherType ==
    db # None => \A a \in DOMAIN applied :
        db.types[a] \in DOMAIN db.defs => db.defs[db.types[a]].as = applied[a]
=============================================================================
