---------------------------- MODULE ListTraverse ----------------------------
(***************************************************************************)
(* The traversal macros of include/list.h over the pointers of DList: the  *)
(* two that end on the head (list_for_every, list_for_every_safe, with or  *)
(* without an entry type) and the four that end on NULL                    *)
(* (list_for_each_entry_list, ..._inverted and their _safe forms).  The    *)
(* body of a _safe loop may unlink the current node and link it elsewhere, *)
(* which is what the macros' comments offer (list.h:218, 231).             *)
(***************************************************************************)
EXTENDS DListRefine

VARIABLES pc,       \* "idle", or a loop at its "test", "body" or "step", or "done"
          loop,     \* the macro that is running
          head,     \* its list
          cn, cns,  \* its node and, in a _safe loop, the saved node
          order,    \* history: what a complete traversal visits
          seen      \* history: the nodes the body was run on

loopVars == <<pc, loop, head, cn, cns, order, seen>>
allVars == <<vars, loopVars>>

Loops == {"list_for_every", "list_for_every_safe",
          "list_for_each_entry_list", "list_for_each_entry_inverted",
          "list_for_each_entry_safe", "list_for_each_entry_safe_inverted"}

Safe == {"list_for_every_safe",
         "list_for_each_entry_safe", "list_for_each_entry_safe_inverted"}
Inverted == {"list_for_each_entry_inverted", "list_for_each_entry_safe_inverted"}
EndsOnHead == {"list_for_every", "list_for_every_safe"}

TypeOKTraverse ==
    /\ TypeOK
    /\ pc \in {"idle", "test", "body", "step", "done"}
    /\ loop \in Loops \cup {NULL}
    /\ head \in Heads \cup {NULL}
    /\ cn \in Pointer /\ cns \in Pointer
    /\ order \in Seq(Items) /\ seen \in Seq(Items)

InitTraverse ==
    /\ Init
    /\ pc = "idle" /\ loop = NULL /\ head = NULL
    /\ cn = NULL /\ cns = NULL
    /\ order = <<>> /\ seen = <<>>

\* Mutant: an entry loop starts from the head itself.
FirstNode_Head(l, h) ==
    CASE l = "list_for_each_entry_safe" -> h
      [] l \in EndsOnHead -> next[h]
      [] l \in Inverted   -> list_peek_tail(h)
      [] OTHER            -> list_peek_head(h)

\* The first node of a loop, the successor it computes for a node, and the
\* value that ends it.
FirstNode(l, h) ==
    CASE l \in EndsOnHead -> next[h]
      [] l \in Inverted   -> list_peek_tail(h)
      [] OTHER            -> list_peek_head(h)

\* Mutant: the entry loops go on from the last item to the first.
Successor_Wrapping(l, h, n) ==
    CASE l = "list_for_each_entry_list" -> list_next_wrap(h, n)
      [] l \in EndsOnHead -> next[n]
      [] l \in Inverted   -> list_peek_prev(h, n)
      [] OTHER            -> list_peek_next(h, n)

Successor(l, h, n) ==
    CASE l \in EndsOnHead -> next[n]
      [] l \in Inverted   -> list_peek_prev(h, n)
      [] OTHER            -> list_peek_next(h, n)

Ends(l, h, n) == n = IF l \in EndsOnHead THEN h ELSE NULL

Begin(l, h) ==
    /\ pc = "idle"
    /\ ring[h] # NULL
    /\ pc' = "test"
    /\ loop' = l
    /\ head' = h
    /\ cn' = FirstNode(l, h)
    /\ cns' = IF l \in Safe THEN Successor(l, h, FirstNode(l, h)) ELSE NULL
    /\ order' = IF l \in Inverted THEN Reverse(Walk(next, h)) ELSE Walk(next, h)
    /\ seen' = <<>>
    /\ UNCHANGED vars

Test ==
    /\ pc = "test"
    /\ pc' = IF Ends(loop, head, cn) THEN "done" ELSE "body"
    /\ UNCHANGED <<vars, loop, head, cn, cns, order, seen>>

\* The loop body looks at the node and, in a _safe loop, may unlink it and
\* link it at either end of another list.  The history need not grow beyond
\* the first node that is too many.
Body ==
    /\ pc = "body"
    /\ pc' = "step"
    /\ seen' = IF Len(seen) <= Len(order) THEN Append(seen, cn) ELSE seen
    /\ \/ UNCHANGED vars
       \/ /\ loop \in Safe
          /\ list_delete(cn)
    /\ UNCHANGED <<loop, head, cn, cns, order>>

BodyRelink ==
    /\ pc = "step"
    /\ loop \in Safe
    /\ ring[cn] = NULL
    /\ \E h \in Heads \ {head} :
          ring[h] # NULL /\ (list_add_head(h, cn) \/ list_add_tail(h, cn))
    /\ UNCHANGED loopVars

\* Mutant: a _safe loop reads the successor from the node it was given.
Step_Late ==
    /\ pc = "step"
    /\ pc' = "test"
    /\ cn' = Successor(loop, head, cn)
    /\ cns' = NULL
    /\ UNCHANGED <<vars, loop, head, order, seen>>

Step ==
    /\ pc = "step"
    /\ pc' = "test"
    /\ IF loop \in Safe
       THEN /\ cn' = cns
            /\ cns' = Successor(loop, head, cns)
       ELSE /\ cn' = Successor(loop, head, cn)
            /\ cns' = NULL
    /\ UNCHANGED <<vars, loop, head, order, seen>>

Leave ==
    /\ pc = "done"
    /\ pc' = "idle" /\ loop' = NULL /\ head' = NULL
    /\ cn' = NULL /\ cns' = NULL /\ order' = <<>> /\ seen' = <<>>
    /\ UNCHANGED vars

BetweenLoops == pc = "idle" /\ Next /\ UNCHANGED loopVars

NextTraverse ==
    \/ BetweenLoops
    \/ \E l \in Loops, h \in Heads : Begin(l, h)
    \/ Test \/ Body \/ BodyRelink \/ Step \/ Leave

\* A loop that has begun goes on: the thread that runs it does nothing else.
SpecTraverse ==
    InitTraverse /\ [][NextTraverse]_allVars /\ WF_allVars(Test \/ Body \/ Step \/ Leave)

\* A loop runs its body once for each node that was in the list when it
\* began, in list order, whatever a _safe loop's body did to the nodes it was
\* given: none is skipped because it was moved, none is visited twice.
VisitsEachOnce ==
    /\ IsPrefix(seen, order)
    /\ pc = "done" => seen = order

\* Every loop ends: unlinking the current node never sends a _safe loop
\* round a ring that its end marker is not in.
LoopsEnd == pc = "test" ~> pc = "done"
=============================================================================
