---------------------------- MODULE MCLogBuffer ----------------------------
(* LogBuffer with a ring of a few slots and messages of one or two         *)
(* characters.                                                             *)
EXTENDS LogBuffer

CONSTANTS c1, c2

MCMsgs == {<<c1>>, <<c2>>, <<c2, c1>>}
MCErr  == <<c2>>
=============================================================================
