---------------------------- MODULE TreeVisitor ----------------------------
(***************************************************************************)
(* ASTVisitor (src/ASTVisitor.cpp): the walk over a syntax tree that the   *)
(* semantic analyzer and the synthesizer inherit, with the calls still to  *)
(* be made in the place of the call stack.  Any callback of a visitor may  *)
(* refuse, which ends the walk.                                            *)
(***************************************************************************)
EXTENDS Naturals, Sequences, SequencesExt

CONSTANT Walking      \* visit() has not returned

VARIABLES
  agenda,     \* the calls of visit, previsit and postvisit still to be made
  calls,      \* the callbacks called
  refuses,    \* the callbacks of this visitor that return false
  verdict     \* what visit() returned, Walking before

visitorVars == <<agenda, calls, refuses, verdict>>

Calls(call, nodes) == [i \in DOMAIN nodes |-> <<call, nodes[i]>>]

visits(nodes) == Calls("visit", nodes)

around(node, nodes) == <<<<"previsit", node>>>> \o visits(nodes) \o <<<<"postvisit", node>>>>

visit_ASTModule(n) == around(n, n.groups)

visit_ASTInferenceGroup(n) == around(n, n.env \o n.defns)

visit_ASTInferenceDefn(n) ==
  around(n, n.globals \o n.arguments \o n.premises \o <<n.proposition>>)

\* Alone among the nodes, a premise has no callbacks.
visit_ASTPremiseDefn(n) == visits(<<n.alternative>>)

\* Fault: the right-hand side is not visited.
visit_ASTInferenceEqualityDefn_LeftOnly(n) == around(n, <<n.lhs>>)

\* The range is not visited.
visit_ASTInferenceEqualityDefn(n) == around(n, <<n.lhs, n.rhs>>)

visit_ASTPropositionDefn(n) == around(n, <<n.target>>)

visit_ASTDeductionTarget(n) == around(n, <<n.alternative>>)

\* Definitions of the environment, globals, arguments, and the kinds of targets.
\* Of an inference premise neither the target nor the while clause is visited.
visit_Leaf(n) == around(n, <<>>)

visit(n) ==
  CASE n.kind = "module"      -> visit_ASTModule(n)
    [] n.kind = "group"       -> visit_ASTInferenceGroup(n)
    [] n.kind = "defn"        -> visit_ASTInferenceDefn(n)
    [] n.kind = "premise"     -> visit_ASTPremiseDefn(n)
    [] n.kind = "equality"    -> visit_ASTInferenceEqualityDefn(n)
    [] n.kind = "proposition" -> visit_ASTPropositionDefn(n)
    [] n.kind = "target"      -> visit_ASTDeductionTarget(n)
    [] OTHER                  -> visit_Leaf(n)

-----------------------------------------------------------------------------
VisitorInit == agenda = <<>> /\ calls = <<>> /\ refuses = {} /\ verdict = Walking

StartVisit(n, refused) ==
  /\ agenda' = visits(<<n>>) /\ calls' = <<>>
  /\ refuses' = refused
  /\ verdict' = Walking

NextIs(call) == agenda # <<>> /\ Head(agenda)[1] = call

VisitNode ==
  /\ NextIs("visit")
  /\ agenda' = visit(Head(agenda)[2]) \o Tail(agenda)
  /\ UNCHANGED <<calls, refuses, verdict>>

Callback ==
  /\ NextIs("previsit") \/ NextIs("postvisit")
  /\ calls' = Append(calls, Head(agenda))
  /\ IF <<Head(agenda)[1], Head(agenda)[2].kind>> \in refuses
     THEN agenda' = <<>> /\ verdict' = FALSE
     ELSE agenda' = Tail(agenda) /\ verdict' = IF agenda' = <<>> THEN TRUE ELSE Walking
  /\ UNCHANGED refuses

Visit == VisitNode \/ Callback

-----------------------------------------------------------------------------
(* The order of the text: what a visitor that never refuses is called for. *)

WalkAll(nodes, Walk(_)) == FlattenSeq([i \in DOMAIN nodes |-> Walk(nodes[i])])

Around(n, inside) == <<<<"previsit", n>>>> \o inside \o <<<<"postvisit", n>>>>

LeafWalk(n)   == Around(n, <<>>)
TargetWalk(n) == Around(n, LeafWalk(n.alternative))
PropositionWalk(n) == Around(n, TargetWalk(n.target))
EqualityWalk(n) == Around(n, TargetWalk(n.lhs) \o TargetWalk(n.rhs))
PremiseWalk(n) ==
  IF n.alternative.kind = "equality" THEN EqualityWalk(n.alternative) ELSE LeafWalk(n.alternative)
DefnWalk(n) ==
  Around(n, WalkAll(n.globals, LeafWalk) \o WalkAll(n.arguments, LeafWalk)
            \o WalkAll(n.premises, PremiseWalk) \o PropositionWalk(n.proposition))
GroupWalk(n)  == Around(n, WalkAll(n.env, LeafWalk) \o WalkAll(n.defns, DefnWalk))
ModuleWalk(n) == Around(n, WalkAll(n.groups, GroupWalk))

=============================================================================
