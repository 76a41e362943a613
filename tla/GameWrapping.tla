---------------------------- MODULE GameWrapping ----------------------------
(***************************************************************************)
(* One game and its launch command, which PenguinBurner wraps and unwraps. *)
(* The command belongs to the launcher (integrations/*/config_store.py,    *)
(* Steam's launch options) and to the user, who edits it there or in       *)
(* PenguinBurner at any time; PenguinBurner keeps a record of what it did  *)
(* in a file of its own.  Lutris and Heroic have a level above the game,   *)
(* which the game inherits while its own level says nothing.               *)
(*                                                                         *)
(* WrapperManager (wrapper_manager.py) serves Lutris, Heroic and Faugus;   *)
(* Steam has its own manager, whose record knows no inheritance.  A write  *)
(* that the launcher refuses, a missing integration and a locked game      *)
(* change nothing and are not steps.                                       *)
(***************************************************************************)
EXTENDS Naturals

CONSTANTS
    Launchers,  \* which of "lutris", "heroic", "faugus" and "steam"
    Texts,      \* what a command may say besides the wrapper
    Empty,      \* a command that says nothing
    Unset,      \* the game's own level says nothing
    Fresh,      \* not cached: the launcher's file is read when needed
    Missing     \* there is no record of the game

\* A command and the wrapper in it: none, ours without or with the overlay, or one
\* that the user wrote.
Commands == [text : Texts \cup {Empty}, wrap : {"none", "off", "on", "hand"}]

ASSUME WrappingAssumption ==
    /\ Launchers \subseteq {"lutris", "heroic", "faugus", "steam"}
    /\ Empty \notin Texts /\ Unset \notin Texts /\ Unset # Empty
    /\ Unset \notin Commands

Plain(t) == [text |-> t, wrap |-> "none"]
Nothing == Plain(Empty)
Wrapped(c) == c # Unset /\ c.wrap # "none"

Inherits == {"lutris", "heroic"}

Settings == [enabled : BOOLEAN, overlay : BOOLEAN, original : Texts \cup {Empty},
             injected : Commands, inherited : {"yes", "no", "unknown"}]
\* No record says that there is none.
ASSUME RecordAssumption == Missing \notin Settings

Blank == [enabled |-> FALSE, overlay |-> FALSE, original |-> Empty,
          injected |-> Nothing, inherited |-> "unknown"]

VARIABLES
    launcher,   \* whose game it is
    own,        \* the command at the game's own level
    upper,      \* what the level above says
    file,       \* the record on disk
    row,        \* the record in memory
    seen,       \* the launcher's levels as parsed by the last scan
    pc,         \* "idle", or what was written and is not recorded yet
    pending,    \* the record that is about to be saved
    owed        \* history: what the user last made of the game's own level

vars == <<launcher, own, upper, file, row, seen, pc, pending, owed>>

TypeOK ==
    /\ launcher \in Launchers
    /\ own \in Commands \cup (IF launcher \in Inherits THEN {Unset} ELSE {})
    /\ upper \in Texts \cup {Empty}
    /\ file \in Settings \cup {Missing} /\ row \in Settings
    /\ seen.own \in Commands \cup {Fresh} /\ seen.upper \in Texts \cup {Empty, Fresh}
    /\ pc \in {"idle", "synced", "typed"} /\ pending \in Settings
    /\ owed \in Texts \cup {Empty, Unset}

-----------------------------------------------------------------------------
(* What the launcher says. *)

\* How a launcher keeps a command: Lutris drops an empty one, Faugus and Steam keep
\* an empty one for none, Heroic tells the two apart.
Kept(c) == CASE launcher = "lutris" /\ c = Nothing           -> Unset
             [] launcher \notin Inherits /\ c = Unset        -> Nothing
             [] OTHER                                        -> c

\* What a scan parses and keeps: Faugus's and Steam's commands, Heroic's defaults.
Parsed(o, u) == [own   |-> IF launcher \in {"faugus", "steam"} THEN o ELSE Fresh,
                 upper |-> IF launcher = "heroic" THEN u ELSE Fresh]

SeenOwn   == IF seen.own = Fresh THEN own ELSE seen.own
SeenUpper == IF seen.upper = Fresh THEN upper ELSE seen.upper

\* Mutant: only the game's own level is read.
BugCurrent == IF SeenOwn # Unset THEN SeenOwn ELSE Nothing

\* What the game launches with, as far as PenguinBurner can see.
Current == IF SeenOwn # Unset THEN SeenOwn ELSE Plain(SeenUpper)

\* The record that a change starts from: Steam's manager reads it again.
Recorded(f) == IF f = Missing THEN Blank ELSE f
Setting == IF launcher = "steam" THEN Recorded(file) ELSE row

-----------------------------------------------------------------------------
(* _sync_game and Steam's _apply: the command that fits a setting. *)

\* Mutant: a wrapper that is there is always the one that was recorded.
BugEdited(s) == FALSE

\* The user has changed the wrapped command since it was written.
Edited(s) == launcher # "steam" /\ s.injected # Nothing /\ Current # s.injected

\* What a later disable gives back, once the wrapper is in.
Original(s) ==
    IF Wrapped(Current) /\ ~Edited(s) /\ s.original # Empty THEN s.original
    ELSE Current.text

Inherited(s) ==
    IF launcher = "steam" THEN "unknown"
    ELSE IF ~Wrapped(Current) THEN IF SeenOwn = Unset THEN "yes" ELSE "no"
    ELSE IF Edited(s) THEN "no" ELSE s.inherited

\* remove_wrapper: the recorded original, as long as the command is the recorded one.
Restored(s) ==
    IF Current = s.injected /\ (launcher = "steam" => s.injected # Nothing)
    THEN Plain(s.original) ELSE Plain(Current.text)

\* The game's own level goes back to saying nothing.
Resumes(s) ==
    /\ launcher # "steam"
    /\ \/ SeenOwn = Unset
       \/ s.inherited = "yes" /\ s.injected # Nothing /\ Current = s.injected
       \/ s.inherited = "unknown" /\ Restored(s) # Nothing /\ launcher \in Inherits
          /\ Restored(s) = Plain(SeenUpper)

Wanted(s) ==
    IF s.enabled THEN [text |-> Current.text, wrap |-> IF s.overlay THEN "on" ELSE "off"]
    ELSE IF Resumes(s) THEN Unset
    ELSE Restored(s)

\* What is recorded of it, after the launcher has taken the command.
Stored(s) ==
    IF s.enabled
    THEN [s EXCEPT !.original = Original(s), !.inherited = Inherited(s),
                   !.injected = Wanted(s)]
    ELSE [s EXCEPT !.original = IF Resumes(s) THEN Empty ELSE Restored(s).text,
                   !.injected = Nothing]

\* After a write the command is known again: Faugus's file is read when needed.
SeenAfter(o) == [seen EXCEPT !.own = IF launcher = "steam" THEN o ELSE Fresh]

\* The first half of a change: the launcher's command.  Words of the user that are the
\* same as the inherited ones may be taken for inherited.
Sync(s) ==
    /\ pc = "idle"
    /\ own' = IF launcher = "steam" /\ Wanted(s) = Current THEN own ELSE Kept(Wanted(s))
    /\ seen' = SeenAfter(IF launcher = "steam" THEN Wanted(s) ELSE Fresh)
    /\ pending' = Stored(s)
    /\ pc' = "synced"
    /\ owed' = IF own' = Unset /\ owed = upper THEN Unset ELSE owed
    /\ UNCHANGED <<launcher, upper, file, row>>

SetGameEnabled(b) ==
    Sync([Setting EXCEPT !.enabled = b,
                         !.overlay = IF launcher = "steam" THEN @ /\ b ELSE @])
SetGameOverlay(b) == Sync([Setting EXCEPT !.overlay = b])
\* The mode, the GPU or the target; off again for a game that is off.
Retune == Sync(Setting)

\* set_game_command: what is recorded of words that the user types.
TypedRecord(c) ==
    [row EXCEPT !.enabled = Wrapped(c), !.overlay = c.wrap = "on", !.original = c.text,
                !.inherited = "no", !.injected = IF Wrapped(c) THEN c ELSE Nothing]

\* set_raw_launch_options: Steam's manager keeps the original of a game that is on.
RawRecord(s, c) ==
    IF Wrapped(c)
    THEN [s EXCEPT !.overlay = c.wrap = "on", !.injected = c,
                   !.original = IF s.enabled THEN @ ELSE c.text]
    ELSE [s EXCEPT !.enabled = FALSE, !.overlay = FALSE, !.original = c.text,
                   !.injected = Nothing]

\* What the user types is written as it is; Steam's manager has nothing to record of a game
\* that is off and stays unwrapped.
SetGameCommand(c) ==
    /\ pc = "idle"
    /\ own' = Kept(IF c = Nothing THEN Unset ELSE c)
    /\ seen' = SeenAfter(c)
    /\ owed' = IF own' = Unset THEN Unset ELSE c.text
    /\ IF launcher = "steam" /\ ~Wrapped(c) /\ ~Setting.enabled
       THEN pc' = "idle" /\ UNCHANGED pending
       ELSE /\ pc' = "typed"
            /\ pending' = IF launcher = "steam" THEN RawRecord(Setting, c) ELSE TypedRecord(c)
    /\ UNCHANGED <<launcher, upper, file, row>>

\* The second half: the record, on disk and then in memory, or an error.
Save ==
    /\ pc # "idle" /\ pc' = "idle"
    /\ file' = pending
    /\ row' = IF launcher = "steam" THEN row ELSE pending
    /\ pending' = Blank
    /\ UNCHANGED <<launcher, own, upper, seen, owed>>

SaveFails ==
    /\ pc # "idle" /\ pc' = "idle"
    /\ pending' = Blank
    /\ UNCHANGED <<launcher, own, upper, file, row, seen, owed>>

-----------------------------------------------------------------------------
(* Scans, restarts, and the world. *)

\* Steam's scan makes a record of a wrapped game that has none.
Adopted == [enabled |-> TRUE, overlay |-> own.wrap = "on", original |-> own.text,
            injected |-> own, inherited |-> "unknown"]

Scan ==
    /\ seen' = Parsed(own, upper)
    /\ row' = IF launcher = "steam" THEN row ELSE Recorded(file)
    /\ file' = IF launcher = "steam" /\ file = Missing /\ Wrapped(own) THEN Adopted ELSE file
    /\ UNCHANGED <<launcher, own, upper, owed>>

Refresh == pc = "idle" /\ Scan /\ UNCHANGED <<pc, pending>>

\* Killed, perhaps between the two halves, and started again.
Restart == pc' = "idle" /\ pending' = Blank /\ Scan

\* The settings file is gone, or cannot be parsed and is moved aside.
LoseRecord ==
    /\ file # Missing /\ file' = Missing
    /\ UNCHANGED <<launcher, own, upper, row, seen, pc, pending, owed>>

\* The user changes the command in the launcher, or its window writes an old one back.
UserEdits(c) ==
    /\ c = Kept(c) /\ c # own
    /\ own' = c
    /\ owed' = IF c = Unset THEN Unset ELSE c.text
    /\ UNCHANGED <<launcher, upper, file, row, seen, pc, pending>>

ChangeUpper(t) ==
    /\ launcher \in Inherits /\ t # upper
    /\ upper' = t
    /\ UNCHANGED <<launcher, own, file, row, seen, pc, pending, owed>>

-----------------------------------------------------------------------------
Init ==
    /\ launcher \in Launchers
    /\ own \in {Kept(c) : c \in {Plain(t) : t \in Texts \cup {Empty}} \cup {Unset}}
    /\ upper \in IF launcher \in Inherits THEN Texts \cup {Empty} ELSE {Empty}
    /\ file = Missing /\ row = Blank
    /\ seen = Parsed(own, upper)
    /\ pc = "idle" /\ pending = Blank
    /\ owed = IF own = Unset THEN Unset ELSE own.text

PenguinBurner ==
    \/ \E b \in BOOLEAN : SetGameEnabled(b) \/ SetGameOverlay(b)
    \/ Retune
    \/ \E c \in Commands : SetGameCommand(c)

World == \/ LoseRecord
         \/ \E c \in Commands \cup {Unset} : UserEdits(c)
         \/ \E t \in Texts \cup {Empty} : ChangeUpper(t)

Next == PenguinBurner \/ Save \/ SaveFails \/ Refresh \/ Restart \/ World

Spec == Init /\ [][Next]_vars

-----------------------------------------------------------------------------
(* Properties. *)

\* What the user made of the game's own level, as the launcher keeps it.
Owed(o) == Kept(IF o = Unset THEN Unset ELSE Plain(o))

\* "Disabling it restores the original launch command" (docs/features/game-library.md 25):
\* whenever PenguinBurner leaves the game without its wrapper, the game's own level is what
\* the user last made of it, wherever that was, or inherits if it did.
HandsBack ==
    [][pc = "idle" /\ pc' = "synced" /\ ~pending'.enabled
         => own' = Owed(owed) \/ (own' = Unset /\ owed = upper)]_vars

\* Nothing has changed at the launcher since the last scan.
UpToDate == seen.own \in {Fresh, own} /\ seen.upper \in {Fresh, upper}

\* _sync_game: "Writing the game level replaces whatever a level above it set, so a game that
\* inherits ... would otherwise lose it the moment PenguinBurner is switched on."  An enabling
\* change leaves the game launching with the words it launched with, inherited ones included.
WrappingKeeps ==
    [][UpToDate /\ pc = "idle" /\ pc' = "synced" /\ pending'.enabled
         => own'.text = IF own = Unset THEN upper ELSE own.text]_vars
=============================================================================
