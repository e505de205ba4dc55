-------------------------------- MODULE MCTypes --------------------------------
(***************************************************************************)
(* The parts of imap-types that have states of their own, next to each     *)
(* other: sequence sets, texts of sequence sets, names, and generators of  *)
(* tags.  They share nothing, so an application is followed with one of    *)
(* them at a time.                                                         *)
(***************************************************************************)
EXTENDS SequenceSet, SequenceText, MCNames, TagGenerator

NoSets == set = <<>> /\ UNCHANGED vars
NoText == written = <<>> /\ UNCHANGED written
NoName == atom_type = "None" /\ UNCHANGED name_vars
NoTag == created = 0 /\ UNCHANGED tag_vars

TypesInit == Init /\ TextInit /\ NamesInit /\ TagInit

TypesNext ==
  \/ NoText /\ NoName /\ NoTag /\ Next
  \/ NoSets /\ NoName /\ NoTag /\ WriteText
  \/ NoSets /\ NoText /\ NoTag /\ NamesNext
  \/ NoSets /\ NoText /\ NoName /\ TagNext

TypesSpec == TypesInit /\ [][TypesNext]_<<vars, written, name_vars, tag_vars>>
=============================================================================
