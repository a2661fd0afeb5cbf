----------------------- MODULE MCFrameworkVersioning -----------------------
EXTENDS FrameworkVersioning, TLC

CONSTANTS A, B, access, review, policy, draft, final, w1, w2

Maps(content) == [content |-> content, mapped |-> TRUE]
Plain(content) == [content |-> content, mapped |-> FALSE]

\* The access control belongs to both frameworks, but not to all their
\* versions; A's second version rewrites the policy and adds the review task,
\* which B's second version shares.
MCManifest ==
    [i \in {A, B} |->
       IF i = A
       THEN <<(access :> Maps(draft) @@ policy :> Plain(draft)),
              (policy :> Plain(final) @@ review :> Plain(draft))>>
       ELSE <<(access :> Plain(draft)),
              (access :> Maps(final) @@ review :> Plain(draft))>>]

Env(races, legacy, late) == [races |-> races, legacy |-> legacy, late |-> late]
MCEnvironments ==
    {Env(FALSE, {}, {}), Env(TRUE, {}, {}), Env(FALSE, {B}, {}), Env(FALSE, {}, {B})}
Calm == {Env(FALSE, {}, {})}

Symmetry == Permutations(Workers)
=============================================================================
