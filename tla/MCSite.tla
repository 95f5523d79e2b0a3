-------------------------------- MODULE MCSite --------------------------------
(* A small instance of Site for TLC: two names, each with its own address.  *)
EXTENDS Site

CONSTANTS root, ann, rootMail, annMail

MCBootMail == [n \in AdminName |-> IF n = root THEN rootMail ELSE annMail]
===============================================================================
