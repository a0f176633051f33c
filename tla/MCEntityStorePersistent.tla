------------------------ MODULE MCEntityStorePersistent ------------------------
(* The values TLC gives the constants of EntityStorePersistent.               *)
EXTENDS EntityStorePersistent

CONSTANTS t1, t2, photos, bad, a, b, c

MCOneThread == {t1}
MCThreads == {t1, t2}

Everything == {"create", "read", "update", "delete", "list"}
MCAnyCall == [t \in Threads |-> Everything]
MCCreators == [t \in Threads |-> {"create"}]
MCUpdaters == [t \in Threads |-> {"update"}]

MCPhotos == {photos}
MCValidAndInvalid == {photos, bad}

MCOneId == {0}
MCIds == {-1, 0, 1}

\* A body longer than one buffer, and a shorter one.
MCBodies == [e \in Entities |-> {<<a, b>>, <<c>>}]
MCOneBody == [e \in Entities |-> {<<a, b>>}]
================================================================================
