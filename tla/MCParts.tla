------------------------------- MODULE MCParts -------------------------------
(***************************************************************************)
(* The parts that the protocol is built from, each on a small instance of  *)
(* its own.  Which one runs is chosen at the beginning, and the others     *)
(* stand still, so that the states are the sum of their states.            *)
(***************************************************************************)
EXTENDS RBTree, AList, Resolver, Format, WindowReport, Lifecycle

VARIABLE part

vars == <<treeVars, listVars, resolverVars, formatVars, reportVars, lifecycleVars, part>>

-----------------------------------------------------------------------------
(* Instances.                                                              *)

\* 104 has the key of 4.
TheKeyOf == [d \in Data |-> d % 100]
FewData == {1, 2, 3, 4, 5, 104}

Piece(text, takes) == [text |-> text, takes |-> takes]

\* What printf of the build for wide characters takes, on a machine of 32 bits, for
\* conversions out of those that the documentation of Trace lists (P7_Trace.h:173-180):
\* each prefix, and each kind of argument.  %wS and %wC, which Microsoft documents as
\* wide and the table takes for narrow, are left out.
ManualPieces ==
  { Piece(<<"d">>, <<>>),                   Piece(<<"%", "%">>, <<>>),
    Piece(<<"%", "d">>, <<"int32">>),       Piece(<<"%", "5", "d">>, <<"int32">>),
    Piece(<<"%", "h", "d">>, <<"int16">>),  Piece(<<"%", "l", "l", "d">>, <<"int64">>),
    Piece(<<"%", "l", "d">>, <<"int32">>),  Piece(<<"%", "I", "6", "4", "d">>, <<"int64">>),
    Piece(<<"%", "I", "d">>, <<"int32">>),  Piece(<<"%", "I", "3", "2", "d">>, <<"int32">>),
    Piece(<<"%", "f">>, <<"double">>),      Piece(<<"%", "p">>, <<"pvoid">>),
    Piece(<<"%", "c">>, <<"wchar">>),       Piece(<<"%", "C">>, <<"char">>),
    Piece(<<"%", "h", "c">>, <<"char">>),   Piece(<<"%", "l", "C">>, <<"wchar">>),
    Piece(<<"%", "s">>, <<"wstr">>),        Piece(<<"%", "S">>, <<"astr">>),
    Piece(<<"%", "h", "s">>, <<"astr">>),   Piece(<<"%", "l", "S">>, <<"wstr">>),
    Piece(<<"%", "w", "s">>, <<"wstr">>) }

-----------------------------------------------------------------------------
TreeStands     == UNCHANGED treeVars
ListStands     == UNCHANGED listVars
ResolverStands == UNCHANGED resolverVars
FormatStands   == UNCHANGED formatVars
ReportStands   == UNCHANGED reportVars
ClientStands   == UNCHANGED lifecycleVars

\* A format has its pieces and a report its first ID only where they are used.
Init ==
  /\ part \in {"tree", "deep tree", "list", "resolver", "format", "report", "client"}
  /\ TreeInit /\ ListInit /\ ResolverInit /\ FormatInit /\ ReportInit
  /\ LifecycleInit
  /\ part # "format" => pieces = <<>>
  /\ part # "report" => firstId = 1

\* Whatever is stored and deleted of a few data
TreeStep == part = "tree" /\ TreeNext /\ Stored(tree') \subseteq FewData

\* A tree that grew in ascending order, and what is left of it
DeepTreeStep ==
  /\ part = "deep tree"
  /\ \E d \in Data :
       \/ Del(d)
       \/ Push(d) /\ Stored(tree) = 1 .. d - 1

ListStep     == part = "list" /\ ListNext
ResolverStep == part = "resolver" /\ ResolverNext
RoutineStep  == part = "resolver" /\ Routine
FormatStep   == part = "format" /\ FormatNext
ReportStep   == part = "report" /\ ReportNext
ClientStep   == part = "client" /\ LifecycleNext

OthersStand(p) ==
  /\ UNCHANGED part
  /\ p # "tree" => TreeStands
  /\ p # "list" => ListStands
  /\ p # "resolver" => ResolverStands
  /\ p # "format" => FormatStands
  /\ p # "report" => ReportStands
  /\ p # "client" => ClientStands

Next ==
  \/ (TreeStep \/ DeepTreeStep) /\ OthersStand("tree")
  \/ ListStep /\ OthersStand("list")
  \/ ResolverStep /\ OthersStand("resolver")
  \/ FormatStep /\ OthersStand("format")
  \/ ReportStep /\ OthersStand("report")
  \/ ClientStep /\ OthersStand("client")

\* The thread of the resolver goes on when it can; no user has to come.  So do the
\* threads of the client and its destructor, and time passes.
Fairness ==
  /\ WF_resolverVars(RoutineStep)
  /\ WF_lifecycleVars(CommRoutine) /\ WF_lifecycleVars(ChnlRoutine)
  /\ WF_lifecycleVars(Destructor) /\ WF_lifecycleVars(Tick)

Spec == Init /\ [][Next]_vars /\ Fairness
=============================================================================
