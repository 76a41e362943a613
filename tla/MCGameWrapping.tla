--------------------------- MODULE MCGameWrapping ---------------------------
(***************************************************************************)
(* GameWrapping with a user who keeps away from what the managers lose.    *)
(***************************************************************************)
EXTENDS GameWrapping

\* The user edits the words as long as the record can tell: takes the whole command away only
\* when none is recorded, and puts a wrapper around words only when the record has no others
\* or, but for Steam, is that of a wrapped game whose words these are not.
CarefulEdit(c) ==
    /\ c = Nothing => Setting.original = Empty
    /\ Wrapped(c) =>
          \/ Setting.inherited # "yes" /\ Setting.original \in {Empty, c.text}
          \/ launcher # "steam" /\ Setting.enabled /\ c.text # Setting.original

\* A failure between the two halves of a change is an edit, as far as the old record goes; it
\* must not have been the first to wrap an inherited command, which only the new one knows.
Recoverable == CarefulEdit(own) /\ (Wrapped(own) => pending.inherited # "yes")

CarefulNext ==
    \* The user asks for a scan after a change in the launcher.
    \/ UpToDate /\ \/ \E b \in BOOLEAN : SetGameEnabled(b) \/ SetGameOverlay(b)
                   \/ Retune
                   \/ \E c \in Commands :
                        /\ launcher = "steam" /\ Wrapped(c) /\ Setting.enabled
                              => c.text = Setting.original
                        /\ SetGameCommand(c)
    \/ Save \/ Refresh
    \/ pc # "idle" /\ Recoverable /\ (SaveFails \/ Restart)
    \/ pc = "idle" /\ Restart
    \/ pc = "idle" /\ (Wrapped(own) => Setting.inherited # "yes") /\ LoseRecord
    \/ \E c \in Commands \cup {Unset} : pc = "idle" /\ CarefulEdit(c) /\ UserEdits(c)
    \/ \E t \in Texts \cup {Empty} : ChangeUpper(t)

CarefulSpec == Init /\ [][CarefulNext]_vars
=============================================================================
