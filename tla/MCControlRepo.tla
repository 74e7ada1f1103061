--------------------------- MODULE MCControlRepo ---------------------------
\* The instance of ControlRepo that ControlRepo.cfg checks.
EXTENDS ControlRepo, TLC

Symmetry == Permutations(Repos)

\* Nothing more is asked of a state in which work has been lost or a control
\* operation has slipped in, and what follows a missed move is the same as
\* without it, apart from the bench, once its handler has made its writes.
StillAsked == ~cut /\ ~slipped /\ ~(missed /\ Free /\ ~Awaited)

\* ... and nothing asks where the components are after it.  Parents and
\* the node of the bench are written and never read: all that is asked of them
\* is that they exist.
View ==
  <<RefsSound,
    [c \in Commits |-> IF documents[c] = None THEN None ELSE [documents[c] EXCEPT !.parent_id = None]],
    heads, applied, stash, origin.repo, saved, runtime, IF missed THEN runtime ELSE bench, motion, work, history>>

=============================================================================
