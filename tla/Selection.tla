------------------------------ MODULE Selection ------------------------------
(* Which posts accompany a request: two pure algorithms of
   internal/conversation/context.go.  A thread is a sequence of posts in the
   order of their creation; cost gives what a post takes of the budget.      *)
EXTENDS Integers, Sequences, SequencesExt, FiniteSetsExt

CostOf(posts, cost) == MapThenSumSet(LAMBDA p : cost[p], posts)

Around(posts, i, near) == SubSeq(posts, Max({1, i - near}), Min({Len(posts), i + near}))

(* Posts ask for room in turn: required ones are taken whatever they cost,
   others while they fit.                                                    *)
Fill(chosen, asking, mandatory, cost, budget) ==
    LET taken[i \in 0..Len(asking)] ==
            IF i = 0 THEN chosen
            ELSE LET before == taken[i - 1]
                 IN  IF asking[i] \in mandatory \/ CostOf(before, cost) + cost[asking[i]] <= budget
                     THEN before \cup {asking[i]} ELSE before
    IN  taken[Len(asking)]

(* First the required posts and the root ask, then the neighbours of the
   required ones, then all from the newest back.                             *)
InitialContext(posts, mandatory, root, near, cost, budget) ==
    LET required == SelectSeq(posts, LAMBDA p : p \in mandatory \/ p = root)
        nearby == FlattenSeq([i \in DOMAIN posts |->
                      IF posts[i] \in mandatory THEN Around(posts, i, near) ELSE <<>>])
        first == Fill({}, required, mandatory, cost, budget)
        second == Fill(first, nearby, mandatory, cost, budget)
    IN  Fill(second, Reverse(posts), mandatory, cost, budget)

(* Of a linked thread of n posts: the target at position at, the root, and
   then the neighbours of the target, the older of two first, up to limit.   *)
LinkedSelection(n, at, root, limit) ==
    LET asked == <<at, root>> \o FlattenSeq([d \in 1..n |-> <<at - d, at + d>>])
    IN  FoldLeft(LAMBDA chosen, i :
                     IF i \in 1..n /\ Cardinality(chosen) < limit THEN chosen \cup {i} ELSE chosen,
                 {}, asked)

-----------------------------------------------------------------------------
(* The target is selected and nothing selected is farther from it than a post
   left out, the root excepted.                                              *)
Nearest(n, at, root, limit) ==
    LET chosen == LinkedSelection(n, at, root, limit)
    IN  /\ at \in chosen
        /\ Cardinality(chosen) = Min({n, limit})
        /\ limit > 1 => root \in chosen
        /\ \A i \in chosen \ {root}, j \in (1..n) \ chosen :
              Max({i - at, at - i}) <= Max({j - at, at - j})

ASSUME SelectionNearest ==
    \A n \in 1..5, limit \in 1..6 : \A at, root \in 1..n : Nearest(n, at, root, limit)
=============================================================================
