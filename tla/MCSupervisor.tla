---------------------------- MODULE MCSupervisor ----------------------------
(***************************************************************************)
(* Instances of Supervisor: the specs that clients ask for and the boot    *)
(* sets the daemon may find.                                               *)
(***************************************************************************)
EXTENDS Supervisor

CONSTANTS g1, g2, g3, stock, quiet, calm, fast

Spec1(p, f) == [gpu |-> g1, profile |-> p, fan |-> f]
Spec2(p, f) == [gpu |-> g2, profile |-> p, fan |-> f]

\* A standing undervolt with a fan curve, alone or beside one of a second GPU; a game's
\* profile, or stock.
QuietFan == {Spec1(quiet, TRUE)}
QuietFanOrSecond == {Spec1(quiet, TRUE), Spec2(calm, FALSE)}
Fast == {Spec1(fast, FALSE)}
FastOrStock == {Spec1(fast, FALSE), Spec1(stock, FALSE)}
NoBoot == {EmptySet}
QuietBoot == {FromLegacy(Spec1(quiet, FALSE))}
QuietOrStockBoot == QuietBoot \cup {FromLegacy(Spec1(stock, FALSE))}

\* Two GPUs: standing on either or on the first, games on the second.
QuietOnBoth == {Spec1(quiet, FALSE), Spec2(quiet, FALSE)}
FastOnSecond == {Spec2(fast, FALSE)}

\* Both tuned, the first selected.
Both(p1, p2, main) ==
    SetMainGpu(Upsert(FromLegacy(Spec1(p1, FALSE)), Spec2(p2, FALSE)), main)

\* No boot set, or one of two GPUs and one that is gone: every main GPU, or none.
NoneOrThree ==
    NoBoot \cup
    {SetMainGpu(Upsert(Both(p1, p2, NoGpu), [gpu |-> g3, profile |-> quiet, fan |-> FALSE]), main) :
        p1, p2 \in {stock, quiet}, main \in {g1, g2, g3, NoGpu}}

\* Clients that leave the daemon alone while a game is watched, and games that
\* leave a child alone: whoever applies, scans or plays meanwhile takes
\* responsibility for what the other has applied.
NobodyScans == child = 0 /\ unfinished = {} /\ resuming = 0

CalmRequest ==
    \/ watches = {} /\ op = Idle /\ \E spec \in StandingSpecs : BeginApply(spec)
    \/ watches = {} /\ games = {} /\ op = Idle /\ BeginChild
    \/ \E p \in Pids : (NobodyScans /\ GameLaunches(p)) \/ GameExits(p)
    \/ \E spec \in GameSpecs, p \in Pids : RequestGame(spec, p)

\* Such clients; or a boot set, a daemon killed at any step and a child that
\* interrupts the session.
CalmNext ==
    \/ HolderStep
    \/ Background
    \/ bootSet = EmptySet /\ CalmRequest
    \/ bootSet # EmptySet /\ (Crash \/ (activeFile # None /\ BeginChild))

\* A daemon that keeps being killed promises nothing.
CalmSpec == Init /\ [][CalmNext]_vars /\ Scheduled /\ <>[][~Crash]_vars
=============================================================================
