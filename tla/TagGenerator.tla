---------------------------- MODULE TagGenerator ----------------------------
(***************************************************************************)
(* imap-types/src/core.rs: generators of command tags.  Every generator    *)
(* takes its number from a process-wide atomic counter; the threads of a   *)
(* process create, use and drop generators at any time.                    *)
(*                                                                         *)
(* A tag is modelled by its instance and counter, which are all of it in a *)
(* debug build; a release build appends a random token, which can only     *)
(* help.  Both counters wrap around at the width of their type.            *)
(***************************************************************************)
EXTENDS Integers, Sequences

CONSTANTS
  Threads,        \* each owns at most one generator at a time
  UsizeWidth,     \* 2^(bits of usize)
  U64Width,       \* 2^64
  MaxGenerators,  \* bound of the model: generators created in the process
  MaxTags         \* bound of the model: tags of one generator

ASSUME TagGeneratorAssumption ==
  /\ UsizeWidth \in Nat \ {0} /\ MaxGenerators \in Nat /\ MaxGenerators <= UsizeWidth
  /\ U64Width \in Nat \ {0} /\ MaxTags \in Nat /\ MaxTags <= U64Width

VARIABLES
  GLOBAL_TAG_GENERATOR_COUNT,
  generator,      \* of each thread, or NoGenerator
  (* history *)
  created,        \* number of generators created
  issued          \* all tags, in the order in which they were generated

tag_vars == <<GLOBAL_TAG_GENERATOR_COUNT, generator, created, issued>>

NoGenerator == [global |-> -1, counter |-> 0, calls |-> 0]
\* calls is history: how often generate was called.
Generator == [global : 0..(UsizeWidth - 1), counter : 0..(U64Width - 1), calls : 0..MaxTags]
Tag == [global : 0..(UsizeWidth - 1), counter : 0..(U64Width - 1)]

TagInit ==
  /\ GLOBAL_TAG_GENERATOR_COUNT = 0
  /\ generator = [t \in Threads |-> NoGenerator]
  /\ created = 0 /\ issued = <<>>

\* Mutant: the counter is the number of living generators.
NewReusing(t) ==
  /\ created < MaxGenerators
  /\ generator[t] = NoGenerator
  /\ generator' = [generator EXCEPT ![t] =
       [global |-> CHOOSE n \in 0..UsizeWidth :
                     /\ \A s \in Threads : generator[s].global # n
                     /\ \A m \in 0..(n-1) : \E s \in Threads : generator[s].global = m,
        counter |-> 0, calls |-> 0]]
  /\ created' = created + 1
  /\ UNCHANGED <<GLOBAL_TAG_GENERATOR_COUNT, issued>>

\* TagGenerator::new: fetch_add is one atomic step.
New(t) ==
  /\ created < MaxGenerators
  /\ generator[t] = NoGenerator
  /\ generator' = [generator EXCEPT ![t] =
       [global |-> GLOBAL_TAG_GENERATOR_COUNT, counter |-> 0, calls |-> 0]]
  /\ GLOBAL_TAG_GENERATOR_COUNT' = (GLOBAL_TAG_GENERATOR_COUNT + 1) % UsizeWidth
  /\ created' = created + 1
  /\ UNCHANGED issued

\* generate: the tag has the counter before it is incremented.
Generate(t) ==
  /\ generator[t] # NoGenerator /\ generator[t].calls < MaxTags
  /\ issued' = Append(issued, [global |-> generator[t].global,
                               counter |-> generator[t].counter])
  /\ generator' = [generator EXCEPT ![t].counter = (@ + 1) % U64Width,
                                    ![t].calls = @ + 1]
  /\ UNCHANGED <<GLOBAL_TAG_GENERATOR_COUNT, created>>

Drop(t) ==
  /\ generator[t] # NoGenerator
  /\ generator' = [generator EXCEPT ![t] = NoGenerator]
  /\ UNCHANGED <<GLOBAL_TAG_GENERATOR_COUNT, created, issued>>

TagNext == \E t \in Threads : New(t) \/ Generate(t) \/ Drop(t)

TagSpec == TagInit /\ [][TagNext]_tag_vars

-----------------------------------------------------------------------------
(* Properties.                                                             *)

TagTypeOK ==
  /\ GLOBAL_TAG_GENERATOR_COUNT \in 0..(UsizeWidth - 1)
  /\ generator \in [Threads -> Generator \cup {NoGenerator}]
  /\ created \in 0..MaxGenerators
  /\ issued \in Seq(Tag)

\* "is guaranteed to be unique": no two tags of a process are equal, whichever
\* threads and generators made them, up to the last value of both counters.
TagsAreUnique ==
  \A i, j \in DOMAIN issued : issued[i] = issued[j] => i = j

\* A living generator has a number below created that no other one has, its
\* counter has not wrapped around before its last tag, and the tags with its
\* number are those it generated.
LivingGeneratorsAreDistinct ==
  \A t \in Threads : generator[t] # NoGenerator =>
    /\ generator[t].global < created
    /\ \A s \in Threads \ {t} : generator[s].global # generator[t].global
    /\ generator[t].calls < U64Width => generator[t].counter = generator[t].calls
    /\ \A i \in DOMAIN issued :
         issued[i].global = generator[t].global => issued[i].counter < generator[t].calls

\* The inductive invariant behind TagsAreUnique.
TagInv ==
  /\ created < UsizeWidth => GLOBAL_TAG_GENERATOR_COUNT = created
  /\ \A i \in DOMAIN issued : issued[i].global < created
  /\ LivingGeneratorsAreDistinct
  /\ TagsAreUnique
=============================================================================
