----------------------------- MODULE MCTimelines -----------------------------
EXTENDS Timelines, TLC

CONSTANTS gather, train, report, extra, a1, a2, h1, h2

MCOriginals == <<gather, train, report>>
MCKind == (gather :> "AUTO_TASKS" @@ train :> "AUTO_PEOPLE" @@ report :> "AUTO_UPLOAD"
           @@ extra :> "MANUAL")

Look(done, full) == [done |-> done, full |-> full]
Agree == {Look(FALSE, FALSE), Look(TRUE, TRUE)}
Scores(tasks) == [k \in AdvanceKinds |->
                    IF k = "AUTO_TASKS" THEN tasks
                    ELSE IF k = "AUTO_PEOPLE" THEN Agree ELSE {Look(FALSE, FALSE)}]

Env(actors, races, edits, began, passes) ==
    [actors |-> actors, races |-> races, edits |-> edits, began |-> began, passes |-> passes,
     views |-> Scores(IF races THEN {Look(TRUE, TRUE)} ELSE View)]

\* One at a time with every score; two hooks and an administrator that race; two
\* administrators that race; edits, one at a time; and a reconciliation that
\* other timelines left one pass or none.
OneAtATime == {a1, h1}
MCEnvironments ==
    {Env(OneAtATime, FALSE, FALSE, began, {2}) : began \in {"draft", "active", "past"}} \cup
    {Env({a1, h1, h2}, TRUE, FALSE, "draft", {2}), Env({a1, a2}, TRUE, FALSE, "draft", {2}),
     Env(OneAtATime, FALSE, TRUE, "active", {2}),
     Env(OneAtATime, FALSE, FALSE, "active", {0, 1})}
Calm == {Env(OneAtATime, FALSE, FALSE, "draft", {2})}

Symmetry == Permutations(Hooks)
=============================================================================
