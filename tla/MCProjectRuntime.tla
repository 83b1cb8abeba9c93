-------------------------- MODULE MCProjectRuntime --------------------------
\* ProjectRuntime on small instances: one project and the requests that meet on
\* it.
EXTENDS ProjectRuntime

SingleDef == {"h1"}
AllKindsDef == RequestKinds

=============================================================================
