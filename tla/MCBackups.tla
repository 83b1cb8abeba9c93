----------------------------- MODULE MCBackups -----------------------------
\* Backups on small instances: two targets, one request beside the scheduler,
\* one or two seconds of two ticks.
EXTENDS Backups, TLC

CONSTANTS t1, t2, b1, b2, h1

TargetsDef == {t1, t2}
BucketsDef == {b1, b2}
OneBucketDef == {b1}
HandlersDef == {h1}

\* The ids of targets are interchangeable.
Perms == Permutations(TargetsDef)

=============================================================================
