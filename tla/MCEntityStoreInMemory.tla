------------------------- MODULE MCEntityStoreInMemory -------------------------
(* The values TLC gives the constants of EntityStoreInMemory.                 *)
EXTENDS EntityStoreInMemory

CONSTANTS t1, t2, photos, notes, a, b

MCThreads == {t1, t2}
MCTwoEntities == {photos, notes}
MCBodies == {a, b}
MCOneId == {0}
================================================================================
