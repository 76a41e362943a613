------------------------ MODULE GameWrapping_proofs -------------------------
(***************************************************************************)
(* For every set of texts and launchers, and for every user: the types of  *)
(* GameWrapping, and that wrapping keeps the words a game launches with.   *)
(* For the careful user of MCGameWrapping: unwrapping gives back what that *)
(* user last wrote, or the inheritance.                                    *)
(***************************************************************************)
EXTENDS MCGameWrapping, TLAPS

\* The parts a setting is made of.
LEMMA SettingParts ==
    ASSUME NEW s \in Settings
    PROVE  /\ s.enabled \in BOOLEAN /\ s.overlay \in BOOLEAN
           /\ s.original \in Texts \cup {Empty} /\ s.injected \in Commands
           /\ s.inherited \in {"yes", "no", "unknown"}
  BY DEF Settings

\* A blank record is a record, and so is what a manager reads of a missing one.
LEMMA BlankTyped == Blank \in Settings
  BY DEF Blank, Settings, Nothing, Plain, Commands

\* What PenguinBurner believes the game launches with is a command.
LEMMA CurrentTyped == TypeOK => Current \in Commands
  <1> SUFFICES ASSUME TypeOK PROVE Current \in Commands
    OBVIOUS
  <1>1. SeenOwn \in Commands \cup {Unset}
    BY DEF TypeOK, SeenOwn
  <1>2. SeenUpper \in Texts \cup {Empty}
    BY DEF TypeOK, SeenUpper
  <1> QED
    BY <1>1, <1>2 DEF Current, Plain, Commands

\* So the record that a change starts from is one.
LEMMA SettingTyped == TypeOK => Setting \in Settings
  BY BlankTyped DEF TypeOK, Setting, Recorded

\* The command that fits a record, and what is recorded of it.
LEMMA WantedTyped ==
    ASSUME TypeOK, NEW s \in Settings
    PROVE  Wanted(s) \in Commands \cup {Unset}
  <1>1. Current \in Commands
    BY CurrentTyped
  <1>2. Current.text \in Texts \cup {Empty}
    BY <1>1 DEF Commands
  <1>3. Restored(s) \in Commands
    BY <1>2, SettingParts DEF Restored, Plain, Commands
  <1>4. [text |-> Current.text, wrap |-> IF s.overlay THEN "on" ELSE "off"] \in Commands
    BY <1>2, SettingParts DEF Commands
  <1> QED
    BY <1>3, <1>4 DEF Wanted

\* Steam knows no inheritance to resume.
LEMMA WantedForSteam ==
    ASSUME TypeOK, launcher = "steam", NEW s \in Settings
    PROVE  Wanted(s) \in Commands
  <1>1. Current \in Commands
    BY CurrentTyped
  <1>2. Current.text \in Texts \cup {Empty}
    BY <1>1 DEF Commands
  <1>3. Restored(s) \in Commands
    BY <1>2, SettingParts DEF Restored, Plain, Commands
  <1>4. [text |-> Current.text, wrap |-> IF s.overlay THEN "on" ELSE "off"] \in Commands
    BY <1>2, SettingParts DEF Commands
  <1>5. ~Resumes(s)
    BY DEF Resumes
  <1> QED
    BY <1>3, <1>4, <1>5 DEF Wanted

LEMMA StoredTyped ==
    ASSUME TypeOK, NEW s \in Settings
    PROVE  Stored(s) \in Settings
  <1>1. Current \in Commands
    BY CurrentTyped
  <1>2. Current.text \in Texts \cup {Empty}
    BY <1>1 DEF Commands
  <1>3. CASE s.enabled
    <2>1. Original(s) \in Texts \cup {Empty}
      BY <1>2, SettingParts DEF Original
    <2>2. Inherited(s) \in {"yes", "no", "unknown"}
      BY SettingParts DEF Inherited
    <2>3. Wanted(s) \in Commands
      <3>1. Wanted(s) = [text |-> Current.text, wrap |-> IF s.overlay THEN "on" ELSE "off"]
        BY <1>3 DEF Wanted
      <3> QED
        BY <1>2, <3>1, SettingParts DEF Commands
    <2> QED
      BY <1>3, <2>1, <2>2, <2>3 DEF Stored, Settings
  <1>4. CASE ~s.enabled
    <2>1. Restored(s).text \in Texts \cup {Empty}
      BY <1>2, SettingParts DEF Restored, Plain, Commands
    <2>2. Nothing \in Commands
      BY DEF Nothing, Plain, Commands
    <2> QED
      BY <1>4, <2>1, <2>2 DEF Stored, Settings
  <1> QED
    BY <1>3, <1>4

\* How a launcher keeps a command.
LEMMA KeptTyped ==
    ASSUME TypeOK, NEW c \in Commands \cup {Unset}
    PROVE  Kept(c) \in Commands \cup (IF launcher \in Inherits THEN {Unset} ELSE {})
  BY DEF Kept, Nothing, Plain, Commands, Inherits, TypeOK

\* What a scan parses.
LEMMA ParsedTyped ==
    ASSUME TypeOK
    PROVE  /\ Parsed(own, upper).own \in Commands \cup {Fresh}
           /\ Parsed(own, upper).upper \in Texts \cup {Empty, Fresh}
  BY DEF Parsed, TypeOK, Inherits

-----------------------------------------------------------------------------
\* A change writes a command and prepares a record, whatever the setting.
LEMMA SyncTyped ==
    ASSUME TypeOK, NEW s \in Settings, Sync(s)
    PROVE  TypeOK'
  <1>1. Wanted(s) \in Commands \cup {Unset}
    BY WantedTyped
  <1>2. Stored(s) \in Settings
    BY StoredTyped
  <1>3. Kept(Wanted(s)) \in Commands \cup (IF launcher \in Inherits THEN {Unset} ELSE {})
    BY <1>1, KeptTyped
  <1>4. own' \in Commands \cup (IF launcher \in Inherits THEN {Unset} ELSE {})
    BY <1>3 DEF Sync, TypeOK
  <1>5. seen'.own \in Commands \cup {Fresh} /\ seen'.upper \in Texts \cup {Empty, Fresh}
    <2>1. launcher = "steam" => Wanted(s) \in Commands
      BY <1>1, WantedForSteam
    <2> QED
      BY <2>1 DEF Sync, SeenAfter, TypeOK
  <1> QED
    BY <1>2, <1>4, <1>5 DEF Sync, TypeOK, Inherits

\* What the user types in PenguinBurner.
LEMMA CommandTyped ==
    ASSUME TypeOK, NEW c \in Commands, SetGameCommand(c)
    PROVE  TypeOK'
  <1>1. Setting \in Settings /\ row \in Settings
    BY SettingTyped DEF TypeOK
  <1>2. Nothing \in Commands /\ c.text \in Texts \cup {Empty}
    BY DEF Nothing, Plain, Commands
  <1>3. own' \in Commands \cup (IF launcher \in Inherits THEN {Unset} ELSE {})
    BY KeptTyped DEF SetGameCommand
  <1>4. seen'.own \in Commands \cup {Fresh} /\ seen'.upper \in Texts \cup {Empty, Fresh}
    BY DEF SetGameCommand, SeenAfter, TypeOK
  <1>5. pending' \in Settings /\ pc' \in {"idle", "synced", "typed"}
    <2>1. (c.wrap = "on") \in BOOLEAN /\ Wrapped(c) \in BOOLEAN
      BY DEF Wrapped
    <2>2. RawRecord(Setting, c) \in Settings
      <3>1. CASE Wrapped(c)
        BY <1>1, <1>2, <2>1, <3>1, SettingParts DEF RawRecord, Settings
      <3>2. CASE ~Wrapped(c)
        BY <1>1, <1>2, <2>1, <3>2, SettingParts DEF RawRecord, Settings
      <3> QED
        BY <3>1, <3>2
    <2>3. TypedRecord(c) \in Settings
      BY <1>1, <1>2, <2>1, SettingParts DEF TypedRecord, Settings
    <2> QED
      BY <2>2, <2>3 DEF SetGameCommand, TypeOK
  <1>6. owed' \in Texts \cup {Empty, Unset}
    BY <1>2 DEF SetGameCommand
  <1> QED
    BY <1>3, <1>4, <1>5, <1>6 DEF SetGameCommand, TypeOK, Inherits

\* A scan, alone or as a restart, reads and adopts records.
LEMMA ScanTyped ==
    ASSUME TypeOK, Scan, pc' \in {"idle", "synced", "typed"}, pending' \in Settings
    PROVE  TypeOK'
  <1>1. Parsed(own, upper).own \in Commands \cup {Fresh}
        /\ Parsed(own, upper).upper \in Texts \cup {Empty, Fresh}
    BY ParsedTyped
  <1>2. Recorded(file) \in Settings
    BY BlankTyped DEF Recorded, TypeOK
  <1>3. file' \in Settings \cup {Missing}
    <2>1. CASE launcher = "steam" /\ file = Missing /\ Wrapped(own)
      <3>1. own \in Commands /\ own.text \in Texts \cup {Empty}
        BY <2>1 DEF TypeOK, Wrapped, Commands
      <3>2. Adopted \in Settings
        BY <3>1 DEF Adopted, Settings
      <3> QED
        BY <2>1, <3>2 DEF Scan
    <2>2. CASE ~(launcher = "steam" /\ file = Missing /\ Wrapped(own))
      BY <2>2 DEF Scan, TypeOK
    <2> QED
      BY <2>1, <2>2
  <1> QED
    BY <1>1, <1>2, <1>3 DEF Scan, TypeOK, Inherits

\* The world, and the end of a change.
LEMMA OthersTyped ==
    ASSUME TypeOK, Save \/ SaveFails \/ World
    PROVE  TypeOK'
  <1>1. CASE Save \/ SaveFails
    BY <1>1, BlankTyped DEF Save, SaveFails, TypeOK, Inherits
  <1>2. CASE LoseRecord
    BY <1>2 DEF LoseRecord, TypeOK, Inherits
  <1>3. ASSUME NEW c \in Commands \cup {Unset}, UserEdits(c)
        PROVE  TypeOK'
    <2>1. own' \in Commands \cup (IF launcher \in Inherits THEN {Unset} ELSE {})
      BY <1>3, KeptTyped DEF UserEdits
    <2>2. owed' \in Texts \cup {Empty, Unset}
      BY <1>3 DEF UserEdits, Commands
    <2> QED
      BY <1>3, <2>1, <2>2 DEF UserEdits, TypeOK, Inherits
  <1>4. ASSUME NEW t \in Texts \cup {Empty}, ChangeUpper(t)
        PROVE  TypeOK'
    BY <1>4 DEF ChangeUpper, TypeOK, Inherits
  <1> QED
    BY <1>1, <1>2, <1>3, <1>4 DEF World

\* What PenguinBurner is asked for.
LEMMA RequestsTyped ==
    ASSUME TypeOK, PenguinBurner
    PROVE  TypeOK'
  <1>1. Setting \in Settings
    BY SettingTyped
  <1>2. ASSUME NEW b \in BOOLEAN, SetGameEnabled(b)
        PROVE  TypeOK'
    <2> DEFINE s == [Setting EXCEPT !.enabled = b,
                       !.overlay = IF launcher = "steam" THEN @ /\ b ELSE @]
    <2>1. s \in Settings
      BY <1>1, SettingParts DEF Settings
    <2>2. Sync(s)
      BY <1>2 DEF SetGameEnabled
    <2> QED
      BY <2>1, <2>2, SyncTyped
  <1>3. ASSUME NEW b \in BOOLEAN, SetGameOverlay(b)
        PROVE  TypeOK'
    <2> DEFINE s == [Setting EXCEPT !.overlay = b]
    <2>1. s \in Settings
      BY <1>1 DEF Settings
    <2>2. Sync(s)
      BY <1>3 DEF SetGameOverlay
    <2> QED
      BY <2>1, <2>2, SyncTyped
  <1>4. CASE Retune
    BY <1>1, <1>4, SyncTyped DEF Retune
  <1> QED
    BY <1>2, <1>3, <1>4, CommandTyped DEF PenguinBurner

LEMMA InitTyped == ASSUME Init PROVE TypeOK
  <1>1. launcher \in Launchers /\ upper \in Texts \cup {Empty}
    BY DEF Init
  <1>2. PICK c \in {Plain(t) : t \in Texts \cup {Empty}} \cup {Unset} : own = Kept(c)
    BY DEF Init
  <1>3. own \in Commands \cup (IF launcher \in Inherits THEN {Unset} ELSE {})
    BY <1>2 DEF Kept, Plain, Commands, Inherits, Nothing
  <1>4. owed \in Texts \cup {Empty, Unset}
    BY <1>3 DEF Init, Commands
  <1>5. Parsed(own, upper).own \in Commands \cup {Fresh}
          /\ Parsed(own, upper).upper \in Texts \cup {Empty, Fresh}
    BY <1>1, <1>3 DEF Parsed, Inherits
  <1> QED
    BY <1>1, <1>3, <1>4, <1>5, BlankTyped DEF Init, TypeOK

LEMMA NextTyped ==
    ASSUME TypeOK, [Next]_vars
    PROVE  TypeOK'
  <1>1. CASE Refresh
    BY <1>1, ScanTyped DEF Refresh, TypeOK
  <1>2. CASE Restart
    BY <1>2, ScanTyped, BlankTyped DEF Restart
  <1>3. CASE UNCHANGED vars
    BY <1>3 DEF vars, TypeOK, Inherits
  <1> QED
    BY <1>1, <1>2, <1>3, RequestsTyped, OthersTyped DEF Next

\* Whatever the user, the launcher and PenguinBurner do, every level of the command and every
\* record is of its type: only Lutris and Heroic games ever say nothing at their own level.
THEOREM WrappingTypes == Spec => []TypeOK
  BY InitTyped, NextTyped, PTL DEF Spec

-----------------------------------------------------------------------------
\* An enabling change writes the words that the game would have launched with.
LEMMA SyncKeepsWords ==
    ASSUME TypeOK, UpToDate, NEW s \in Settings, s.enabled, Sync(s)
    PROVE  own'.text = IF own = Unset THEN upper ELSE own.text
  <1>1. SeenOwn = own /\ SeenUpper = upper
    BY DEF UpToDate, SeenOwn, SeenUpper
  <1>2. Current.text = IF own = Unset THEN upper ELSE own.text
    BY <1>1 DEF Current, Plain
  <1>3. CASE launcher = "steam" /\ Wanted(s) = Current
    <2>1. own # Unset /\ own' = own
      BY <1>3, WrappingAssumption DEF TypeOK, Inherits, Sync
    <2> QED
      BY <2>1
  <1>4. CASE ~(launcher = "steam" /\ Wanted(s) = Current)
    <2>1. Wanted(s) = [text |-> Current.text, wrap |-> IF s.overlay THEN "on" ELSE "off"]
      BY DEF Wanted
    <2>2. Wanted(s).text = Current.text /\ Wanted(s).wrap # "none"
      BY <2>1, SettingParts
    <2>3. Wanted(s) \in Commands
      <3>1. Current.text \in Texts \cup {Empty}
        BY CurrentTyped DEF Commands
      <3> QED
        BY <2>1, <3>1, SettingParts DEF Commands
    <2>4. Wanted(s) # Unset /\ Wanted(s) # Nothing
      BY <2>2, <2>3, WrappingAssumption DEF Nothing, Plain
    <2>5. Kept(Wanted(s)) = Wanted(s)
      BY <2>4 DEF Kept
    <2> QED
      BY <1>2, <1>4, <2>2, <2>5 DEF Sync
  <1> QED
    BY <1>3, <1>4

\* A change turns a switch of a record, and keeps what it says of the command.
Alike(s, r) == s.original = r.original /\ s.injected = r.injected /\ s.inherited = r.inherited

LEMMA ChangesAlike ==
    ASSUME TypeOK, (\E b \in BOOLEAN : SetGameEnabled(b) \/ SetGameOverlay(b)) \/ Retune
    PROVE  \E s \in Settings : Sync(s) /\ Alike(s, Setting)
  <1>1. Setting \in Settings
    BY SettingTyped
  <1>2. ASSUME NEW b \in BOOLEAN, SetGameEnabled(b)
        PROVE  \E s \in Settings : Sync(s) /\ Alike(s, Setting)
    <2> DEFINE r == [Setting EXCEPT !.enabled = b,
                       !.overlay = IF launcher = "steam" THEN @ /\ b ELSE @]
    <2>1. r \in Settings /\ Alike(r, Setting)
      BY <1>1, SettingParts DEF Settings, Alike
    <2>2. Sync(r)
      BY <1>2 DEF SetGameEnabled
    <2> QED
      BY <2>1, <2>2
  <1>3. ASSUME NEW b \in BOOLEAN, SetGameOverlay(b)
        PROVE  \E s \in Settings : Sync(s) /\ Alike(s, Setting)
    <2> DEFINE r == [Setting EXCEPT !.overlay = b]
    <2>1. r \in Settings /\ Alike(r, Setting)
      BY <1>1 DEF Settings, Alike
    <2>2. Sync(r)
      BY <1>3 DEF SetGameOverlay
    <2> QED
      BY <2>1, <2>2
  <1>4. CASE Retune
    BY <1>1, <1>4 DEF Retune, Alike
  <1> QED
    BY <1>2, <1>3, <1>4

\* A request that ends with a record prepared is a change of some setting, as it is then.
LEMMA RequestSyncs ==
    ASSUME TypeOK, [Next]_vars, pc = "idle", pc' = "synced"
    PROVE  \E s \in Settings : Sync(s) /\ Alike(s, Setting)
  <1>1. ~UNCHANGED vars /\ ~Save /\ ~SaveFails /\ ~Refresh /\ ~Restart /\ ~World
    BY DEF vars, Save, SaveFails, Refresh, Restart, World, LoseRecord, UserEdits, ChangeUpper
  <1>2. ASSUME NEW c \in Commands, SetGameCommand(c)
        PROVE  FALSE
    BY <1>2 DEF SetGameCommand
  <1> QED
    BY <1>1, <1>2, ChangesAlike DEF Next, PenguinBurner

\* For every user, launcher and fault: a change that leaves a game enabled, made while nothing
\* has changed at the launcher since the last scan, keeps the words the game launches with.
THEOREM WrappingKeepsWords == Spec => WrappingKeeps
  <1>1. TypeOK /\ [Next]_vars
          => [UpToDate /\ pc = "idle" /\ pc' = "synced" /\ pending'.enabled
                => own'.text = IF own = Unset THEN upper ELSE own.text]_vars
    <2> SUFFICES ASSUME TypeOK, [Next]_vars, UpToDate, pc = "idle", pc' = "synced",
                        pending'.enabled
                 PROVE  own'.text = IF own = Unset THEN upper ELSE own.text
      OBVIOUS
    <2>1. PICK s \in Settings : Sync(s)
      BY RequestSyncs
    <2>2. pending' = Stored(s)
      BY <2>1 DEF Sync
    <2>3. s.enabled
      <3>1. SUFFICES ASSUME ~s.enabled PROVE FALSE
        OBVIOUS
      <3>2. Stored(s).enabled = s.enabled
        BY <3>1 DEF Stored, Settings
      <3> QED
        BY <2>2, <3>1, <3>2
    <2> QED
      BY <2>1, <2>3, SyncKeepsWords
  <1> QED
    BY <1>1, WrappingTypes, PTL DEF Spec, WrappingKeeps
-----------------------------------------------------------------------------
(***************************************************************************)
(* Giving back. A change asks the record what the command was; a failed    *)
(* save, a lost record or an edit leave a record that is not the one of    *)
(* the last write. It still fits the command, in that giving back by it is *)
(* right: the words around the wrapper are the ones that are owed, unless  *)
(* the record knows the very command and that its words were inherited.    *)
(***************************************************************************)

\* What holds of a record by itself: it has a wrapped command around its original words,
\* or none, and only a level that can say nothing inherits.
Sound(s) ==
    /\ s.injected # Nothing => Wrapped(s.injected) /\ s.original = s.injected.text
    /\ s.inherited = "yes" => launcher \in Inherits

\* The command is the one that was written into a level that said nothing.
Lent(s) == Wrapped(own) /\ s.injected = own /\ s.inherited = "yes"

\* What holds of a record and the command.
Fits(s) ==
    /\ launcher # "steam" /\ own = Nothing /\ s.injected = Nothing => s.original = Empty
    /\ Wrapped(own) =>
          /\ s.injected = Nothing => s.inherited # "yes" /\ s.original \in {Empty, own.text}
          /\ launcher = "steam" => s.original \in {Empty, own.text}
          /\ Owed(owed) = IF Lent(s) THEN Unset ELSE Kept(Plain(own.text))

\* Without the wrapper the command is the one that is owed.
OwnInv ==
    /\ own = Unset => Owed(owed) = Unset
    /\ own # Unset /\ ~Wrapped(own) => Owed(owed) = own /\ Kept(own) = own

Marked(s) == s.enabled => s.injected # Nothing

RecordsInv ==
    /\ IF launcher = "steam" THEN row = Blank ELSE file \in {row, Missing}
    /\ Sound(row) /\ Marked(row) /\ Sound(Recorded(file)) /\ Marked(Recorded(file))

PendingInv ==
    /\ pc = "idle" => Fits(Setting) /\ Fits(Recorded(file))
    /\ pc # "idle" => Sound(pending) /\ Marked(pending) /\ Fits(pending)

HandInv == RecordsInv /\ OwnInv /\ PendingInv

LEMMA CommandParts ==
    ASSUME NEW c \in Commands
    PROVE  /\ c # Unset /\ c.text \in Texts \cup {Empty}
           /\ ~Wrapped(c) => c = Plain(c.text)
           /\ \A t : Plain(t).text = t /\ Plain(t).wrap = "none" /\ ~Wrapped(Plain(t))
  BY WrappingAssumption DEF Commands, Wrapped, Plain

\* What a launcher makes of a command.
LEMMA KeptIs ==
    ASSUME TypeOK
    PROVE  /\ \A c \in Commands : c # Nothing => Kept(c) = c
           /\ Kept(Unset) = IF launcher \in Inherits THEN Unset ELSE Nothing
           /\ Kept(Nothing) = IF launcher = "lutris" THEN Unset ELSE Nothing
           /\ Nothing \in Commands
  <1>1. Nothing \in Commands /\ Unset \notin Commands
    BY WrappingAssumption DEF Nothing, Plain, Commands
  <1> QED
    BY <1>1 DEF Kept, Inherits

LEMMA KeptTwice ==
    ASSUME TypeOK, NEW c \in Commands \cup {Unset}
    PROVE  Kept(Kept(c)) = Kept(c)
  BY KeptIs DEF Inherits

LEMMA PlainTyped ==
    ASSUME NEW t \in Texts \cup {Empty}
    PROVE  Plain(t) \in Commands /\ (Plain(t) = Nothing <=> t = Empty)
  BY DEF Plain, Nothing, Commands

\* Words that are owed, and are not empty, are the user's.
LEMMA OwedWords ==
    ASSUME TypeOK, NEW t \in Texts, Owed(owed) = Kept(Plain(t))
    PROVE  owed = t
  <1>1. Plain(t) \in Commands /\ Plain(t) # Nothing /\ Plain(t) # Unset
    BY PlainTyped, WrappingAssumption
  <1>2. Kept(Plain(t)) = Plain(t)
    BY <1>1, KeptIs
  <1>3. CASE owed = Unset
    BY <1>1, <1>2, <1>3, KeptIs DEF Owed
  <1>4. CASE owed # Unset
    <2>1. owed \in Texts \cup {Empty} /\ Owed(owed) = Kept(Plain(owed))
      BY <1>4 DEF TypeOK, Owed
    <2>2. owed # Empty
      BY <1>1, <1>2, <2>1, KeptIs DEF Nothing
    <2>3. Kept(Plain(owed)) = Plain(owed)
      BY <2>1, <2>2, PlainTyped, KeptIs
    <2>4. Plain(owed) = Plain(t)
      BY <1>2, <2>1, <2>3
    <2> QED
      BY <2>4 DEF Plain
  <1> QED
    BY <1>3, <1>4

-----------------------------------------------------------------------------
(* A change. *)

\* A command without the wrapper is given back as it is.
LEMMA RestoresPlain ==
    ASSUME TypeOK, NEW s \in Settings, Sound(s), Fits(s), SeenOwn = own, own # Unset
    PROVE  Current = own /\ own \in Commands /\ Restored(s) = Plain(own.text)
  <1>1. Current = own /\ own \in Commands
    BY DEF Current, TypeOK
  <1>2. CASE own = s.injected /\ (launcher = "steam" => s.injected # Nothing)
    <2>1. s.original = own.text
      <3>1. CASE own = Nothing
        BY <1>2, <3>1 DEF Fits, Nothing, Plain
      <3>2. CASE own # Nothing
        BY <1>2, <3>2 DEF Sound
      <3> QED
        BY <3>1, <3>2
    <2> QED
      BY <1>1, <1>2, <2>1 DEF Restored
  <1>3. CASE ~(own = s.injected /\ (launcher = "steam" => s.injected # Nothing))
    BY <1>1, <1>3 DEF Restored
  <1> QED
    BY <1>1, <1>2, <1>3

\* The other half of OwnInv: what is owed of a command that is not lent.
LEMMA OwedIs ==
    ASSUME TypeOK, OwnInv, NEW s \in Settings, Fits(s), own # Unset, ~Lent(s)
    PROVE  Owed(owed) = Kept(Plain(own.text))
  <1>1. own \in Commands
    BY DEF TypeOK
  <1>2. CASE Wrapped(own)
    BY <1>2 DEF Fits
  <1>3. CASE ~Wrapped(own)
    <2>1. own = Plain(own.text)
      BY <1>1, <1>3, CommandParts
    <2>2. Owed(owed) = own /\ Kept(own) = own
      BY <1>3 DEF OwnInv
    <2> QED
      BY <2>1, <2>2
  <1> QED
    BY <1>2, <1>3

LEMMA GivesBack ==
    ASSUME TypeOK, OwnInv, NEW s \in Settings, Sound(s), Fits(s), ~s.enabled,
           SeenOwn = own, SeenUpper = upper
    PROVE  \/ Kept(Wanted(s)) = Owed(owed)
           \/ Kept(Wanted(s)) = Unset /\ owed = upper
  <1>1. Wanted(s) = IF Resumes(s) THEN Unset ELSE Restored(s)
    BY DEF Wanted
  <1>2. CASE own = Unset
    <2>1. launcher \in Inherits
      BY <1>2, WrappingAssumption DEF TypeOK
    <2>2. Resumes(s)
      BY <1>2, <2>1 DEF Resumes, Inherits
    <2> QED
      BY <1>1, <1>2, <2>1, <2>2, KeptIs DEF OwnInv
  <1>3. CASE own # Unset
    <2>1. Current = own /\ own \in Commands /\ Restored(s) = Plain(own.text)
      BY <1>3, RestoresPlain
    <2>2. CASE Lent(s)
      <3>1. own # Nothing /\ launcher # "steam" /\ launcher \in Inherits
        BY <2>2 DEF Lent, Sound, Wrapped, Nothing, Plain, Inherits
      <3>2. Resumes(s)
        BY <2>1, <2>2, <3>1 DEF Resumes, Lent
      <3>3. Owed(owed) = Unset
        BY <2>2 DEF Fits, Lent
      <3> QED
        BY <1>1, <3>1, <3>2, <3>3, KeptIs
    <2>3. CASE ~Lent(s) /\ ~Resumes(s)
      BY <1>1, <1>3, <2>1, <2>3, OwedIs
    <2>4. CASE ~Lent(s) /\ Resumes(s)
      <3>1. ~(s.inherited = "yes" /\ s.injected # Nothing /\ Current = s.injected)
        BY <2>1, <2>4 DEF Lent, Sound
      <3>2. launcher \in Inherits /\ Plain(own.text) # Nothing /\ Plain(own.text) = Plain(upper)
        BY <1>3, <2>1, <2>4, <3>1 DEF Resumes
      <3>3. own.text \in Texts /\ own.text = upper
        BY <2>1, <3>2, CommandParts DEF Plain, Nothing
      <3>4. owed = upper
        BY <1>3, <2>4, <3>3, OwedIs, OwedWords
      <3> QED
        BY <1>1, <2>4, <3>2, <3>4, KeptIs
    <2> QED
      BY <2>2, <2>3, <2>4
  <1> QED
    BY <1>2, <1>3

\* What is stored of a change.
LEMMA StoredParts ==
    ASSUME NEW s \in Settings
    PROVE  /\ Stored(s).enabled = s.enabled
           /\ s.enabled => /\ Stored(s).injected = Wanted(s)
                           /\ Stored(s).original = Original(s)
                           /\ Stored(s).inherited = Inherited(s)
           /\ ~s.enabled => /\ Stored(s).injected = Nothing
                            /\ Stored(s).original = IF Resumes(s) THEN Empty ELSE Restored(s).text
                            /\ Stored(s).inherited = s.inherited
  BY DEF Stored, Settings

\* Steam keeps a command that is already the one wanted.
LEMMA SyncWrites ==
    ASSUME TypeOK, NEW s \in Settings, Sync(s), SeenOwn = own
    PROVE  own' = Kept(Wanted(s))
  <1>1. CASE launcher = "steam" /\ Wanted(s) = Current
    <2>1. own \in Commands
      BY <1>1 DEF TypeOK, Inherits
    <2>2. own' = own /\ Wanted(s) = own
      BY <1>1, <2>1, CommandParts DEF Sync, Current
    <2> QED
      BY <1>1, <2>1, <2>2, KeptIs
  <1>2. CASE ~(launcher = "steam" /\ Wanted(s) = Current)
    BY <1>2 DEF Sync
  <1> QED
    BY <1>1, <1>2

\* The words that are recorded are the ones around the wrapper.
LEMMA OriginalIs ==
    ASSUME TypeOK, NEW s \in Settings, Sound(s), Fits(s), SeenOwn = own
    PROVE  Original(s) = Current.text
  <1> SUFFICES ASSUME Wrapped(Current), ~Edited(s), s.original # Empty
               PROVE  s.original = Current.text
    BY DEF Original
  <1>1. own # Unset /\ Current = own
    BY CommandParts DEF Current, Wrapped, Plain
  <1>2. CASE launcher = "steam" \/ s.injected = Nothing
    BY <1>1, <1>2 DEF Fits
  <1>3. CASE launcher # "steam" /\ s.injected # Nothing
    BY <1>1, <1>3 DEF Edited, Sound
  <1> QED
    BY <1>2, <1>3

\* A command is recorded as inherited when it is, or was when it was lent.
LEMMA InheritedIs ==
    ASSUME TypeOK, NEW s \in Settings, Sound(s), Fits(s), SeenOwn = own
    PROVE  Inherited(s) = "yes" <=> (own = Unset \/ Lent(s))
  <1>1. CASE launcher = "steam"
    <2>1. own # Unset /\ s.inherited # "yes"
      BY <1>1, WrappingAssumption DEF TypeOK, Sound, Inherits
    <2> QED
      BY <1>1, <2>1 DEF Inherited, Lent
  <1>2. CASE launcher # "steam" /\ ~Wrapped(Current)
    <2>1. ~Wrapped(own)
      BY <1>2 DEF Current, Wrapped
    <2> QED
      BY <1>2, <2>1 DEF Inherited, Lent
  <1>3. CASE launcher # "steam" /\ Wrapped(Current)
    <2>1. own # Unset /\ Current = own /\ own # Nothing
      BY <1>3, CommandParts DEF Current, Wrapped, Plain, Nothing
    <2>2. CASE s.injected = Nothing
      BY <1>3, <2>1, <2>2 DEF Inherited, Lent, Edited, Fits
    <2>3. CASE s.injected # Nothing
      BY <1>3, <2>1, <2>3 DEF Inherited, Lent, Edited
    <2> QED
      BY <2>2, <2>3
  <1> QED
    BY <1>1, <1>2, <1>3

\* Wrapping records what giving back will need.
LEMMA WrapsIn ==
    ASSUME TypeOK, OwnInv, NEW s \in Settings, Sound(s), Fits(s), SeenOwn = own,
           s.enabled, Sync(s)
    PROVE  OwnInv' /\ (Sound(pending) /\ Marked(pending) /\ Fits(pending))'
  <1> DEFINE w == [text |-> Current.text, wrap |-> IF s.overlay THEN "on" ELSE "off"]
  <1>1. Current \in Commands /\ Current.text \in Texts \cup {Empty}
    BY CurrentTyped, CommandParts
  <1>2. w \in Commands /\ Wrapped(w) /\ w.text = Current.text /\ Wanted(s) = w
    <2>1. w \in Commands
      BY <1>1, SettingParts DEF Commands
    <2>2. w.wrap # "none" /\ w.text = Current.text
      OBVIOUS
    <2>3. Wanted(s) = w
      BY DEF Wanted
    <2> HIDE DEF w
    <2> QED
      BY <2>1, <2>2, <2>3, CommandParts DEF Wrapped
  <1> HIDE DEF w
  <1>3. w # Nothing /\ w # Unset
    BY <1>2, CommandParts DEF Nothing
  <1>4. own' = w
    BY <1>2, <1>3, SyncWrites, KeptIs
  <1>5. owed' = owed /\ launcher' = launcher /\ Owed(owed)' = Owed(owed)
        /\ pending' = Stored(s) /\ pc' = "synced"
    BY <1>3, <1>4 DEF Sync, Owed, Kept
  <1>6. /\ pending'.injected = own' /\ pending'.original = own'.text
        /\ pending'.inherited = "yes" <=> (own = Unset \/ Lent(s))
    <2>1. Stored(s).injected = w /\ Stored(s).original = Original(s)
          /\ Stored(s).inherited = Inherited(s)
      BY <1>2, StoredParts
    <2> QED
      BY <1>2, <1>4, <1>5, <2>1, OriginalIs, InheritedIs
  <1>7. Owed(owed) = IF own = Unset \/ Lent(s) THEN Unset ELSE Kept(Plain(own'.text))
    <2>1. CASE own = Unset
      BY <2>1 DEF OwnInv
    <2>2. CASE Lent(s)
      BY <2>2 DEF Fits, Lent
    <2>3. CASE own # Unset /\ ~Lent(s)
      <3>1. Current = own
        BY <2>3 DEF Current
      <3> QED
        BY <1>2, <1>4, <2>3, <3>1, OwedIs
    <2> QED
      BY <2>1, <2>2, <2>3
  <1>8. pending'.inherited = "yes" => launcher \in Inherits
    BY <1>6, WrappingAssumption DEF TypeOK, Lent, Sound
  <1>9. Wrapped(own)' /\ (Lent(pending)' <=> (own = Unset \/ Lent(s)))
        /\ Kept(Plain(own.text))' = Kept(Plain(own'.text))
    BY <1>2, <1>4, <1>5, <1>6 DEF Lent, Wrapped, Kept
  <1>10. OwnInv'
    BY <1>3, <1>4, <1>9 DEF OwnInv
  <1>11. Fits(pending)'
    BY <1>3, <1>4, <1>5, <1>6, <1>7, <1>9 DEF Fits
  <1>12. Sound(pending)' /\ Marked(pending)'
    BY <1>3, <1>4, <1>5, <1>6, <1>8, <1>9 DEF Sound, Marked, Wrapped
  <1> QED
    BY <1>10, <1>11, <1>12

\* A launcher keeps commands as it always does.
LEMMA KeptAlike ==
    ASSUME launcher' = launcher, NEW c
    PROVE  Kept(c)' = Kept(c)
  BY DEF Kept

LEMMA OwedAlike ==
    ASSUME launcher' = launcher, owed' = owed
    PROVE  Owed(owed)' = Owed(owed)
  BY DEF Owed, Kept

\* Unwrapping leaves what is owed, and a record of no wrapper.
LEMMA Unwraps ==
    ASSUME TypeOK, TypeOK', OwnInv, NEW s \in Settings, Sound(s), Fits(s), ~s.enabled,
           SeenOwn = own, SeenUpper = upper, Sync(s)
    PROVE  OwnInv' /\ (Sound(pending) /\ Marked(pending) /\ Fits(pending))'
  <1>1. own' = Kept(Wanted(s)) /\ Wanted(s) = IF Resumes(s) THEN Unset ELSE Restored(s)
    BY SyncWrites DEF Wanted
  <1>2. launcher' = launcher /\ pending' = Stored(s)
        /\ owed' = IF own' = Unset /\ owed = upper THEN Unset ELSE owed
    BY DEF Sync
  <1>3. PICK t \in Texts \cup {Empty} : Restored(s) = Plain(t)
    BY CurrentTyped, CommandParts, SettingParts DEF Restored
  <1>4. Plain(t) \in Commands /\ Plain(t) # Unset /\ ~Wrapped(Plain(t)) /\ Plain(t).text = t
    BY PlainTyped, CommandParts
  <1>5. own' \in {Unset, Nothing, Plain(t)} /\ ~Wrapped(own)'
    BY <1>1, <1>3, <1>4, KeptIs, CommandParts DEF Wrapped, Nothing
  <1>6. own' = Owed(owed) \/ (own' = Unset /\ owed = upper)
    BY <1>1, GivesBack
  <1>7. OwnInv'
    <2>1. CASE own' = Unset
      <3>1. launcher \in Inherits
        BY <1>2, <2>1, WrappingAssumption DEF TypeOK
      <3>2. Owed(owed)' = Unset
        <4>1. CASE owed' = Unset
          BY <1>2, <3>1, <4>1, KeptAlike, KeptIs DEF Owed
        <4>2. CASE owed' # Unset
          <5>1. owed' = owed /\ Owed(owed) = Unset
            BY <1>2, <1>6, <2>1, <4>2
          <5> QED
            BY <1>2, <5>1, OwedAlike
        <4> QED
          BY <4>1, <4>2
      <3> QED
        BY <1>5, <2>1, <3>2 DEF OwnInv
    <2>2. CASE own' # Unset
      <3>1. owed' = owed /\ own' = Owed(owed) /\ Owed(owed)' = Owed(owed)
        BY <1>2, <1>6, <2>2, OwedAlike
      <3>2. Kept(own)' = own'
        BY <1>1, <1>2, <1>3, <1>4, KeptTwice, KeptAlike
      <3> QED
        BY <2>2, <3>1, <3>2 DEF OwnInv
    <2> QED
      BY <2>1, <2>2
  <1>8. pending'.injected = Nothing /\ ~pending'.enabled /\ pending'.inherited = s.inherited
        /\ pending'.original = IF Resumes(s) THEN Empty ELSE Restored(s).text
    BY <1>2, StoredParts
  <1>9. own' = Nothing => pending'.original = Empty
    <2> SUFFICES ASSUME own' = Nothing, ~Resumes(s) PROVE t = Empty
      BY <1>3, <1>4, <1>8
    <2> QED
      BY <1>1, <1>3, <1>4, KeptIs, PlainTyped
  <1>10. Fits(pending)'
    BY <1>5, <1>9 DEF Fits
  <1>11. Sound(pending)' /\ Marked(pending)'
    BY <1>2, <1>8 DEF Sound, Marked
  <1> QED
    BY <1>7, <1>10, <1>11

-----------------------------------------------------------------------------
(* The careful user's steps. *)

LEMMA SettingFits ==
    ASSUME HandInv, NEW s \in {Setting, Recorded(file)}
    PROVE  Sound(s) /\ Marked(s) /\ (pc = "idle" => Fits(s))
  BY DEF HandInv, RecordsInv, PendingInv, Setting

\* Steps that leave the records and the launcher as they are.
LEMMA SameRecords ==
    ASSUME RecordsInv, UNCHANGED <<launcher, file, row>>
    PROVE  RecordsInv' /\ Setting' = Setting /\ Recorded(file)' = Recorded(file)
  BY DEF RecordsInv, Setting, Recorded, Sound, Marked, Wrapped

LEMMA SyncHands ==
    ASSUME TypeOK, TypeOK', HandInv, UpToDate, NEW s \in Settings, Alike(s, Setting), Sync(s)
    PROVE  HandInv'
  <1>1. SeenOwn = own /\ SeenUpper = upper /\ pc = "idle" /\ pc' = "synced"
    BY DEF UpToDate, SeenOwn, SeenUpper, Sync
  <1>2. Sound(s) /\ Fits(s)
    BY <1>1, SettingFits DEF Alike, Sound, Fits, Lent
  <1>3. RecordsInv'
    BY SameRecords DEF HandInv, Sync
  <1>4. OwnInv' /\ (Sound(pending) /\ Marked(pending) /\ Fits(pending))'
    BY <1>1, <1>2, WrapsIn, Unwraps DEF HandInv
  <1> QED
    BY <1>1, <1>3, <1>4 DEF HandInv, PendingInv

\* What a command is worth that the user gives, and that is kept as it is.
LEMMA OwedOfCommand ==
    ASSUME TypeOK, NEW c \in Commands
    PROVE  Owed(c.text) = Kept(Plain(c.text)) /\ (~Wrapped(c) => Owed(c.text) = Kept(c))
  BY CommandParts, WrappingAssumption DEF Owed

\* What the careful user types in PenguinBurner.
LEMMA CommandHands ==
    ASSUME TypeOK, TypeOK', HandInv, NEW c \in Commands, SetGameCommand(c),
           launcher = "steam" /\ Wrapped(c) /\ Setting.enabled => c.text = Setting.original
    PROVE  HandInv'
  <1> DEFINE o == IF c = Nothing THEN Unset ELSE c
  <1>1. /\ pc = "idle" /\ own' = Kept(o) /\ UNCHANGED <<launcher, upper, file, row>>
        /\ owed' = IF own' = Unset THEN Unset ELSE c.text
    BY DEF SetGameCommand
  <1>2. RecordsInv' /\ Setting' = Setting /\ Recorded(file)' = Recorded(file)
    BY <1>1, SameRecords DEF HandInv
  <1>3. /\ o = c \/ (o = Unset /\ c = Nothing)
        /\ Kept(o) = c \/ (Kept(o) = Unset /\ c = Nothing)
        /\ c \in Commands /\ c # Unset /\ Kept(Kept(o)) = Kept(o)
    BY KeptIs, KeptTwice, CommandParts
  <1> HIDE DEF o
  <1>4. Nothing.text = Empty /\ ~Wrapped(Nothing) /\ ~Wrapped(Unset)
    BY DEF Nothing, Plain, Wrapped
  <1>5. OwnInv' /\ (Wrapped(own)' => own' = c /\ owed' = c.text)
    <2>1. CASE own' = Unset
      <3>1. launcher' \in Inherits
        BY <2>1, WrappingAssumption DEF TypeOK
      <3>2. Owed(owed)' = Unset
        BY <1>1, <2>1, <3>1, KeptAlike, KeptIs DEF Owed
      <3> QED
        BY <1>4, <2>1, <3>2 DEF OwnInv, Wrapped
    <2>2. CASE own' # Unset
      <3>1. own' = c /\ owed' = c.text /\ Kept(own)' = own'
        BY <1>1, <1>3, <2>2, KeptAlike
      <3>2. Owed(owed)' = Owed(c.text)
        BY <1>1, <3>1, KeptAlike DEF Owed
      <3>3. ~Wrapped(c) => Owed(owed)' = own'
        BY <1>1, <1>3, <3>1, <3>2, OwedOfCommand, KeptAlike
      <3> QED
        BY <2>2, <3>1, <3>3 DEF OwnInv, Wrapped
    <2> QED
      BY <2>1, <2>2
  <1>6. CASE launcher = "steam" /\ ~Wrapped(c) /\ ~Setting.enabled
    <2>1. pc' = "idle" /\ ~Wrapped(own)'
      BY <1>5, <1>6 DEF SetGameCommand, Wrapped
    <2>2. Fits(Setting)' /\ Fits(Recorded(file))'
      BY <1>1, <1>6, <2>1 DEF Fits
    <2> QED
      BY <1>2, <1>5, <2>1, <2>2 DEF HandInv, PendingInv
  <1>7. CASE launcher = "steam" /\ (Wrapped(c) \/ Setting.enabled)
    <2>1. pc' = "typed" /\ pending' = RawRecord(Setting, c)
      BY <1>7 DEF SetGameCommand
    <2>2. Setting \in Settings /\ Setting.inherited # "yes"
      BY <1>7, SettingTyped, SettingFits DEF Sound, Inherits
    <2>3. CASE Wrapped(c)
      <3>1. /\ pending'.injected = c /\ pending'.inherited = Setting.inherited
            /\ pending'.original = c.text
        BY <1>7, <2>1, <2>2, <2>3 DEF RawRecord, Settings
      <3>2. c # Nothing
        BY <1>4, <2>3
      <3>3. Wrapped(own)' => Owed(owed)' = Kept(Plain(own.text))'
        BY <1>1, <1>5, OwedOfCommand, KeptAlike DEF Owed
      <3>4. Sound(pending)' /\ Marked(pending)'
        BY <2>2, <2>3, <3>1, <3>2 DEF Sound, Marked, Wrapped
      <3>5. Fits(pending)'
        BY <1>1, <1>5, <1>7, <2>2, <3>1, <3>2, <3>3 DEF Fits, Lent
      <3> QED
        BY <1>2, <1>5, <2>1, <3>4, <3>5 DEF HandInv, PendingInv
    <2>4. CASE ~Wrapped(c)
      <3>1. pending'.injected = Nothing /\ ~pending'.enabled
            /\ pending'.inherited = Setting.inherited
        BY <2>1, <2>2, <2>4 DEF RawRecord, Settings
      <3>2. ~Wrapped(own)'
        BY <1>5, <2>4 DEF Wrapped
      <3>3. Sound(pending)' /\ Marked(pending)' /\ Fits(pending)'
        BY <1>1, <1>7, <2>2, <3>1, <3>2 DEF Sound, Marked, Fits
      <3> QED
        BY <1>2, <1>5, <2>1, <3>3 DEF HandInv, PendingInv
    <2> QED
      BY <2>3, <2>4
  <1>8. CASE launcher # "steam"
    <2>1. pc' = "typed" /\ pending' = TypedRecord(c) /\ row \in Settings
      BY <1>8 DEF SetGameCommand, TypeOK
    <2>2. /\ pending'.enabled = Wrapped(c) /\ pending'.original = c.text
          /\ pending'.inherited = "no"
          /\ pending'.injected = IF Wrapped(c) THEN c ELSE Nothing
      BY <2>1 DEF TypedRecord, Settings
    <2>3. Wrapped(c) => c # Nothing
      BY <1>4
    <2>4. Sound(pending)' /\ Marked(pending)'
      BY <2>2, <2>3 DEF Sound, Marked, Wrapped
    <2>5. own' = Nothing => c = Nothing
      BY <1>1, <1>3, WrappingAssumption, CommandParts, KeptIs
    <2>6. Wrapped(own)' => Owed(owed)' = Kept(Plain(own.text))'
      BY <1>1, <1>5, OwedOfCommand, KeptAlike DEF Owed
    <2>7. Fits(pending)'
      BY <1>1, <1>4, <1>5, <1>8, <2>2, <2>3, <2>5, <2>6 DEF Fits, Lent
    <2> QED
      BY <1>2, <1>5, <2>1, <2>4, <2>7 DEF HandInv, PendingInv
  <1> QED
    BY <1>6, <1>7, <1>8

\* A record that is not there fits what is not lent, and so does what Steam's scan makes of
\* a command.
LEMMA BlankFits ==
    ASSUME TypeOK, Wrapped(own) => Owed(owed) = Kept(Plain(own.text))
    PROVE  Sound(Blank) /\ Marked(Blank) /\ Fits(Blank)
  BY DEF Blank, Sound, Marked, Fits, Lent

\* An edit that the record can tell.
LEMMA EditIsTold ==
    ASSUME TypeOK, HandInv, NEW c \in Commands \cup {Unset}, CarefulEdit(c),
           NEW s \in {Setting, Blank}
    PROVE  /\ c = Nothing => s.original = Empty
           /\ Wrapped(c) =>
                 /\ c # Nothing /\ c # Unset
                 /\ s.injected = Nothing => s.inherited # "yes" /\ s.original \in {Empty, c.text}
                 /\ launcher = "steam" => s.original \in {Empty, c.text}
                 /\ ~(s.injected = c /\ s.inherited = "yes")
  <1>1. Wrapped(c) => c # Nothing /\ c # Unset
    BY DEF Wrapped, Nothing, Plain
  <1>2. CASE s = Blank
    BY <1>1, <1>2 DEF Blank
  <1>3. CASE s = Setting
    <2>1. Sound(s) /\ Marked(s)
      BY <1>3, SettingFits
    <2> QED
      BY <1>1, <1>3, <2>1 DEF CarefulEdit, Sound, Marked
  <1> QED
    BY <1>2, <1>3

LEMMA RecordedIs ==
    ASSUME HandInv
    PROVE  Recorded(file) \in {Setting, Blank}
  BY DEF HandInv, RecordsInv, Setting, Recorded

\* A failed save leaves a record that still fits.
LEMMA RecoverableFits ==
    ASSUME TypeOK, HandInv, pc # "idle", Recoverable, NEW s \in {Setting, Recorded(file)}
    PROVE  Fits(s)
  <1>1. s \in {Setting, Blank} /\ own \in Commands \cup {Unset} /\ CarefulEdit(own)
    BY RecordedIs DEF TypeOK, Recoverable
  <1>2. CASE ~Wrapped(own)
    <2>1. own = Nothing => s.original = Empty
      BY <1>1, EditIsTold
    <2> QED
      BY <1>2, <2>1 DEF Fits
  <1>3. CASE Wrapped(own)
    <2>1. Owed(owed) = Kept(Plain(own.text))
      BY <1>3 DEF HandInv, PendingInv, Recoverable, Fits, Lent
    <2>2. /\ own # Nothing
          /\ s.injected = Nothing => s.inherited # "yes" /\ s.original \in {Empty, own.text}
          /\ launcher = "steam" => s.original \in {Empty, own.text}
          /\ ~(s.injected = own /\ s.inherited = "yes")
      BY <1>1, <1>3, EditIsTold
    <2>3. ~Lent(s)
      BY <2>2 DEF Lent
    <2> QED
      BY <1>3, <2>1, <2>2, <2>3 DEF Fits
  <1> QED
    BY <1>2, <1>3

\* As long as the command stays, and what is owed, what fits does.
LEMMA FitsAlike ==
    ASSUME UNCHANGED <<launcher, own, owed>>, NEW s
    PROVE  /\ Sound(s)' <=> Sound(s)
           /\ Marked(s)' <=> Marked(s)
           /\ Fits(s)' <=> Fits(s)
  BY DEF Sound, Marked, Fits, Lent, Wrapped, Owed, Kept

LEMMA OwnAlike ==
    ASSUME OwnInv, UNCHANGED <<launcher, own, owed>>
    PROVE  OwnInv'
  BY DEF OwnInv, Owed, Kept, Wrapped

\* A scan reads the record again.
LEMMA ScanHands ==
    ASSUME TypeOK, HandInv, Scan, pc' = "idle", Fits(Recorded(file))
    PROVE  HandInv'
  <1> DEFINE r == Recorded(file)
  <1>1. /\ Sound(r) /\ Marked(r) /\ Fits(r) /\ UNCHANGED <<launcher, own, owed>>
        /\ row' = IF launcher = "steam" THEN row ELSE r
        /\ file' = IF launcher = "steam" /\ file = Missing /\ Wrapped(own) THEN Adopted ELSE file
    BY DEF HandInv, RecordsInv, Scan
  <1>2. OwnInv'
    BY <1>1, OwnAlike DEF HandInv
  <1>3. ASSUME NEW f, Sound(f), Marked(f), Fits(f), Recorded(file)' = f,
               Setting' = f, Sound(row'), Marked(row'),
               IF launcher = "steam" THEN row' = Blank ELSE file' \in {row', Missing}
        PROVE  HandInv'
    <2>1. Sound(row)' /\ Marked(row)' /\ Sound(Recorded(file))' /\ Marked(Recorded(file))'
      BY <1>1, <1>3, FitsAlike DEF Sound, Marked, Wrapped
    <2>2. Fits(Setting)' /\ Fits(Recorded(file))'
      <3>1. Fits(f)'
        BY <1>1, <1>3, FitsAlike
      <3> QED
        BY <1>1, <1>3, <3>1 DEF Fits, Lent
    <2>3. RecordsInv'
      BY <1>1, <1>3, <2>1 DEF RecordsInv
    <2> QED
      BY <1>2, <2>2, <2>3 DEF HandInv, PendingInv
  <1>4. CASE launcher = "steam" /\ file = Missing /\ Wrapped(own)
    <2>1. own \in Commands /\ own # Nothing /\ own.text \in Texts \cup {Empty}
      BY <1>4, CommandParts DEF TypeOK, Inherits, Nothing
    <2>2. Adopted \in Settings /\ Adopted.injected = own /\ Adopted.original = own.text
          /\ Adopted.inherited = "unknown"
      BY <2>1 DEF Adopted, Settings
    <2>3. Recorded(file)' = Adopted /\ Setting' = Adopted
      BY <1>1, <1>4, <2>2, RecordAssumption DEF Recorded, Setting
    <2>4. Owed(owed) = Kept(Plain(own.text))
      BY <1>1, <1>4 DEF Fits, Lent, Recorded, Blank
    <2>5. Sound(Adopted) /\ Marked(Adopted) /\ Fits(Adopted)
      BY <1>4, <2>1, <2>2, <2>4 DEF Sound, Marked, Fits, Lent
    <2>6. row' = row /\ row = Blank /\ Sound(row') /\ Marked(row')
      BY <1>1, <1>4 DEF HandInv, RecordsInv
    <2> QED
      BY <1>3, <1>4, <2>3, <2>5, <2>6
  <1>5. CASE ~(launcher = "steam" /\ file = Missing /\ Wrapped(own))
    <2>1. file' = file /\ Recorded(file)' = r /\ Setting' = r
      BY <1>1, <1>5 DEF Recorded, Setting
    <2>2. IF launcher = "steam" THEN row' = Blank ELSE file' \in {row', Missing}
      BY <1>1, <2>1 DEF HandInv, RecordsInv, Recorded
    <2>3. Sound(row') /\ Marked(row')
      BY <1>1 DEF HandInv, RecordsInv
    <2> QED
      BY <1>1, <1>3, <2>1, <2>2, <2>3
  <1> QED
    BY <1>4, <1>5

\* Nothing of the above depends on the level above, nor on what was parsed.
LEMMA HandAlike ==
    ASSUME HandInv, UNCHANGED <<launcher, own, owed, file, row, pc, pending>>
    PROVE  HandInv'
  <1>1. RecordsInv' /\ Setting' = Setting /\ Recorded(file)' = Recorded(file)
    BY SameRecords DEF HandInv
  <1>2. OwnInv'
    BY OwnAlike DEF HandInv
  <1>3. PendingInv'
    BY <1>1 DEF HandInv, PendingInv, Sound, Marked, Fits, Lent, Wrapped, Owed, Kept
  <1> QED
    BY <1>1, <1>2, <1>3 DEF HandInv

\* The rest of what PenguinBurner does.
LEMMA RecordsHands ==
    ASSUME TypeOK, HandInv,
           \/ Save \/ Refresh
           \/ pc # "idle" /\ Recoverable /\ (SaveFails \/ Restart)
           \/ pc = "idle" /\ Restart
    PROVE  HandInv'
  <1>1. CASE Save
    <2>1. /\ pc # "idle" /\ pc' = "idle" /\ file' = pending
          /\ row' = IF launcher = "steam" THEN row ELSE pending
          /\ UNCHANGED <<launcher, own, owed>>
      BY <1>1 DEF Save
    <2>2. Sound(pending) /\ Marked(pending) /\ Fits(pending) /\ pending \in Settings
      BY <2>1 DEF HandInv, PendingInv, TypeOK
    <2>3. Recorded(file)' = pending /\ Setting' = pending
      BY <2>1, <2>2, RecordAssumption DEF Recorded, Setting
    <2>4. /\ IF launcher = "steam" THEN row' = Blank ELSE file' = row'
          /\ Sound(row') /\ Marked(row')
      BY <2>1, <2>2 DEF HandInv, RecordsInv
    <2>5. Sound(row)' /\ Marked(row)' /\ Sound(Recorded(file))' /\ Marked(Recorded(file))'
      BY <2>1, <2>2, <2>3, <2>4 DEF Sound, Marked, Wrapped
    <2>6. Fits(Setting)' /\ Fits(Recorded(file))'
      <3>1. Fits(pending) /\ UNCHANGED <<launcher, own, owed>>
        BY <2>1, <2>2
      <3>2. ASSUME NEW f, f = pending PROVE Fits(f)'
        BY <3>1, <3>2, FitsAlike
      <3> QED
        BY <2>3, <3>2 DEF Fits, Lent
    <2> QED
      BY <2>1, <2>4, <2>5, <2>6, OwnAlike DEF HandInv, RecordsInv, PendingInv
  <1>2. CASE Refresh
    BY <1>2, SettingFits, ScanHands DEF Refresh
  <1>3. CASE pc = "idle" /\ Restart
    BY <1>3, SettingFits, ScanHands DEF Restart
  <1>4. CASE pc # "idle" /\ Recoverable /\ Restart
    BY <1>4, RecoverableFits, ScanHands DEF Restart
  <1>5. CASE pc # "idle" /\ Recoverable /\ SaveFails
    <2>1. pc' = "idle" /\ UNCHANGED <<launcher, own, owed, file, row>>
      BY <1>5 DEF SaveFails
    <2>2. RecordsInv' /\ Setting' = Setting /\ Recorded(file)' = Recorded(file)
      BY <2>1, SameRecords DEF HandInv
    <2>3. Fits(Setting) /\ Fits(Recorded(file))
      BY <1>5, RecoverableFits
    <2>4. Fits(Setting)' /\ Fits(Recorded(file))'
      BY <2>1, <2>2, <2>3 DEF Fits, Lent, Wrapped, Owed, Kept
    <2> QED
      BY <2>1, <2>2, <2>4, OwnAlike DEF HandInv, PendingInv
  <1> QED
    BY <1>1, <1>2, <1>3, <1>4, <1>5

LEMMA EditHands ==
    ASSUME TypeOK, TypeOK', HandInv, pc = "idle", NEW c \in Commands \cup {Unset},
           CarefulEdit(c), UserEdits(c)
    PROVE  HandInv'
  <1>1. /\ c = Kept(c) /\ own' = c /\ owed' = IF c = Unset THEN Unset ELSE c.text
        /\ UNCHANGED <<launcher, file, row, pc, pending>>
    BY DEF UserEdits
  <1>2. RecordsInv' /\ Setting' = Setting /\ Recorded(file)' = Recorded(file)
    BY <1>1, SameRecords DEF HandInv
  <1>3. OwnInv' /\ (Wrapped(c) => Owed(owed)' = Kept(Plain(own.text))')
    <2>1. CASE c = Unset
      <3>1. Owed(owed)' = Unset
        BY <1>1, <2>1, KeptAlike DEF Owed
      <3> QED
        BY <1>1, <2>1, <3>1 DEF OwnInv, Wrapped
    <2>2. CASE c # Unset
      <3>1. c \in Commands /\ Owed(owed)' = Owed(c.text)
        BY <1>1, <2>2, KeptAlike DEF Owed
      <3>2. Owed(c.text) = Kept(Plain(c.text)) /\ (~Wrapped(c) => Owed(c.text) = Kept(c))
        BY <3>1, OwedOfCommand
      <3>3. Kept(own)' = Kept(c) /\ Kept(Plain(own.text))' = Kept(Plain(c.text))
        BY <1>1 DEF Kept
      <3> QED
        BY <1>1, <2>2, <3>1, <3>2, <3>3 DEF OwnInv, Wrapped
    <2> QED
      BY <2>1, <2>2
  <1>4. ASSUME NEW s \in {Setting, Blank}
        PROVE  Fits(s)'
    <2>1. CASE ~Wrapped(c)
      <3>1. c = Nothing => s.original = Empty
        BY EditIsTold
      <3> QED
        BY <1>1, <2>1, <3>1 DEF Fits, Wrapped
    <2>2. CASE Wrapped(c)
      <3>1. /\ c # Nothing /\ c # Unset
            /\ s.injected = Nothing => s.inherited # "yes" /\ s.original \in {Empty, c.text}
            /\ launcher = "steam" => s.original \in {Empty, c.text}
            /\ ~(s.injected = c /\ s.inherited = "yes")
        BY <2>2, EditIsTold
      <3>2. ~Lent(s)'
        BY <1>1, <3>1 DEF Lent
      <3> QED
        BY <1>1, <1>3, <2>2, <3>1, <3>2 DEF Fits
    <2> QED
      BY <2>1, <2>2
  <1>5. Fits(Setting)' /\ Fits(Recorded(file))'
    <2>1. Setting \in {Setting, Blank} /\ Recorded(file) \in {Setting, Blank}
      BY RecordedIs
    <2> QED
      BY <1>2, <1>4, <2>1 DEF Fits, Lent
  <1> QED
    BY <1>1, <1>2, <1>3, <1>5 DEF HandInv, PendingInv

LEMMA WorldHands ==
    ASSUME TypeOK, TypeOK', HandInv,
           \/ pc = "idle" /\ (Wrapped(own) => Setting.inherited # "yes") /\ LoseRecord
           \/ \E c \in Commands \cup {Unset} : pc = "idle" /\ CarefulEdit(c) /\ UserEdits(c)
           \/ \E t \in Texts \cup {Empty} : ChangeUpper(t)
    PROVE  HandInv'
  <1>1. CASE pc = "idle" /\ (Wrapped(own) => Setting.inherited # "yes") /\ LoseRecord
    <2>1. file' = Missing /\ UNCHANGED <<launcher, own, owed, row, pc, pending>>
      BY <1>1 DEF LoseRecord
    <2>2. Sound(Blank) /\ Marked(Blank) /\ Fits(Blank)
      <3>1. Fits(Setting) /\ ~Lent(Setting)
        BY <1>1, SettingFits DEF Lent
      <3> QED
        BY <3>1, BlankFits DEF Fits
    <2>3. Recorded(file)' = Blank /\ Setting' = IF launcher = "steam" THEN Blank ELSE Setting
      BY <2>1 DEF Recorded, Setting
    <2>4. Fits(Setting)
      BY <1>1, SettingFits
    <2>5. Fits(Setting)' /\ Fits(Recorded(file))'
      BY <2>1, <2>2, <2>3, <2>4 DEF Fits, Lent, Wrapped, Owed, Kept
    <2>6. RecordsInv'
      BY <2>1, <2>2, <2>3 DEF HandInv, RecordsInv, Sound, Marked, Wrapped
    <2> QED
      BY <1>1, <2>1, <2>5, <2>6, OwnAlike DEF HandInv, PendingInv
  <1>2. ASSUME NEW t \in Texts \cup {Empty}, ChangeUpper(t)
        PROVE  HandInv'
    <2>1. UNCHANGED <<launcher, own, owed, file, row, pc, pending>>
      BY <1>2 DEF ChangeUpper
    <2> QED
      BY <2>1, HandAlike
  <1> QED
    BY <1>1, <1>2, EditHands

LEMMA CarefulHands ==
    ASSUME TypeOK, TypeOK', HandInv, [CarefulNext]_vars
    PROVE  HandInv'
  <1>1. CASE UpToDate /\ ((\E b \in BOOLEAN : SetGameEnabled(b) \/ SetGameOverlay(b)) \/ Retune)
    <2>1. PICK s \in Settings : Sync(s) /\ Alike(s, Setting)
      BY <1>1, ChangesAlike
    <2> QED
      BY <1>1, <2>1, SyncHands
  <1>2. CASE UNCHANGED vars
    BY <1>2, HandAlike DEF vars
  <1> QED
    BY <1>1, <1>2, CommandHands, RecordsHands, WorldHands DEF CarefulNext

LEMMA CarefulIsNext ==
    ASSUME [CarefulNext]_vars
    PROVE  [Next]_vars
  BY DEF CarefulNext, Next, PenguinBurner, World

LEMMA InitHands ==
    ASSUME TypeOK, Init
    PROVE  HandInv
  <1>1. file = Missing /\ row = Blank /\ pc = "idle" /\ ~Wrapped(own)
        /\ owed = IF own = Unset THEN Unset ELSE own.text
    BY KeptIs, PlainTyped, CommandParts DEF Init, Wrapped
  <1>2. Recorded(file) = Blank /\ Setting = Blank
    BY <1>1 DEF Recorded, Setting
  <1>3. Sound(Blank) /\ Marked(Blank) /\ Fits(Blank)
    BY <1>1, BlankFits
  <1>4. OwnInv
    <2>1. PICK c \in Commands \cup {Unset} : own = Kept(c)
      BY PlainTyped DEF Init
    <2>2. Kept(own) = own
      BY <2>1, KeptTwice
    <2>3. CASE own = Unset
      BY <1>1, <2>2, <2>3 DEF OwnInv, Owed
    <2>4. CASE own # Unset
      <3>1. own \in Commands
        BY <2>4 DEF TypeOK
      <3> QED
        BY <1>1, <2>2, <2>4, <3>1, OwedOfCommand DEF OwnInv
    <2> QED
      BY <2>3, <2>4
  <1> QED
    BY <1>1, <1>2, <1>3, <1>4 DEF HandInv, RecordsInv, PendingInv

\* "Disabling it restores the original launch command" (docs/features/game-library.md 25), for
\* every careful user: in whatever order games are switched on and off, retuned, edited here
\* and in the launcher, scanned, restarted, with saves that fail and records that are lost as
\* CarefulNext has it, the game's own level is left as the user last made it, or inheriting.
THEOREM UnwrappingGivesBack == CarefulSpec => HandsBack
  <1>1. Init => TypeOK /\ HandInv
    BY InitTyped, InitHands
  <1>2. TypeOK /\ HandInv /\ [CarefulNext]_vars => TypeOK' /\ HandInv'
    BY CarefulIsNext, NextTyped, CarefulHands
  <1>3. TypeOK /\ HandInv /\ [CarefulNext]_vars
          => [pc = "idle" /\ pc' = "synced" /\ ~pending'.enabled
                => own' = Owed(owed) \/ (own' = Unset /\ owed = upper)]_vars
    <2> SUFFICES ASSUME TypeOK, HandInv, [CarefulNext]_vars, pc = "idle", pc' = "synced",
                        ~pending'.enabled
                 PROVE  own' = Owed(owed) \/ (own' = Unset /\ owed = upper)
      OBVIOUS
    <2>1. PICK s \in Settings : Sync(s) /\ Alike(s, Setting)
      BY CarefulIsNext, RequestSyncs
    <2>2. UpToDate
      BY DEF CarefulNext, vars, Save, SaveFails, Refresh, Restart, LoseRecord, UserEdits, ChangeUpper
    <2>3. SeenOwn = own /\ SeenUpper = upper
      BY <2>2 DEF UpToDate, SeenOwn, SeenUpper
    <2>4. ~s.enabled
      BY <2>1, StoredParts DEF Sync
    <2>5. Sound(s) /\ Fits(s)
      BY <2>1, SettingFits DEF Alike, Sound, Fits, Lent
    <2>6. own' = Kept(Wanted(s))
      BY <2>1, <2>3, SyncWrites
    <2> QED
      BY <2>3, <2>4, <2>5, <2>6, GivesBack DEF HandInv
  <1> QED
    BY <1>1, <1>2, <1>3, PTL DEF CarefulSpec, HandsBack

=============================================================================
