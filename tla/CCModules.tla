----------------------------- MODULE CCModules ------------------------------
(***************************************************************************)
(* internal/ccmodules: the registry of congestion controllers, the -cc     *)
(* list that names one per path, and the two controllers it holds.         *)
(* "fixed" (custom_template.go) is a constant window that does not react   *)
(* to loss; "cubic" is quic-go's own and external, so its window is any    *)
(* number of datagrams in CubicWindows.                                    *)
(***************************************************************************)
EXTENDS PathSet, Sequences

CONSTANTS MaxDatagram,  \* initialMaxDatagramSize
          WindowFactor, \* datagrams in the fixed window (64 in the code)
          CubicWindows  \* windows cubic may choose, in datagrams

ASSUME CCAssumption ==
    /\ MaxDatagram \in Nat \ {0, 1} /\ WindowFactor \in Nat \ {0}
    /\ CubicWindows \subseteq Nat \ {0} /\ CubicWindows # {}

VARIABLES cc,           \* per path: the name of its controller, or NoCC
          inRecovery,   \* per path: fixedWindowSender.inRecovery
          cubicWindow   \* per path: cubic's window

ccvars == <<cc, inRecovery, cubicWindow>>

NoCC == "none"

\* The names init() registers; Get fails on any other.
Registered == {"cubic", "fixed"}
Get(name) == name \in Registered

\* One name for all paths, or one for each; any other list is an error.
ExpandCCFails(spec) == Len(spec) # 1 /\ Len(spec) # NumPaths
ExpandCC(spec) == [p \in Paths |-> IF Len(spec) = 1 THEN spec[1] ELSE spec[p + 1]]

CCInit ==
    /\ cc = [p \in Paths |-> NoCC]
    /\ inRecovery = [p \in Paths |-> FALSE]
    /\ cubicWindow \in [Paths -> CubicWindows]

\* quic.Dial calls the factory dialPath got from the registry.
NewController(p, name) ==
    /\ cc' = [cc EXCEPT ![p] = name]
    /\ UNCHANGED <<inRecovery, cubicWindow>>

-----------------------------------------------------------------------------
\* The controller of path p.

GetCongestionWindow(p) ==
    MaxDatagram * IF cc[p] = "fixed" THEN WindowFactor ELSE cubicWindow[p]

\* Bug: nothing is sent in recovery, which the template never leaves.
CanSend_NotInRecovery(p, bytesInFlight) ==
    ~inRecovery[p] /\ bytesInFlight < GetCongestionWindow(p)

\* Bug: the limit is compared with <=.
CanSend_OffByOne(p, bytesInFlight) == bytesInFlight <= GetCongestionWindow(p)

\* Bug: the window is not consulted.
CanSend_Always(p, bytesInFlight) == TRUE

CanSend(p, bytesInFlight) == bytesInFlight < GetCongestionWindow(p)

CubicAdapts(p) ==
    \E w \in CubicWindows : cubicWindow' = [cubicWindow EXCEPT ![p] = w]

OnPacketAcked(p) ==
    /\ IF cc[p] = "fixed" THEN UNCHANGED cubicWindow ELSE CubicAdapts(p)
    /\ UNCHANGED <<cc, inRecovery>>

OnCongestionEvent(p) ==
    /\ IF cc[p] = "fixed"
       THEN inRecovery' = [inRecovery EXCEPT ![p] = TRUE] /\ UNCHANGED cubicWindow
       ELSE CubicAdapts(p) /\ UNCHANGED inRecovery
    /\ UNCHANGED cc

CCTypeOK ==
    /\ cc \in [Paths -> Registered \cup {NoCC}]
    /\ inRecovery \in [Paths -> BOOLEAN]
    /\ cubicWindow \in [Paths -> CubicWindows]
=============================================================================
