---------------------------- MODULE NameRegistry ----------------------------
(***************************************************************************)
(* What the chain promises of names, without outputs, transactions,        *)
(* mempools or handlers.  A commitment is made by one block and opens its  *)
(* key at most once, in a later block; the key is then owned by it, and    *)
(* whoever opens it next takes it over.  When a commitment is too old it   *)
(* is forgotten, together with the owner of the key it opened: from then   *)
(* on the name is settled.  Nothing else changes an owner.                 *)
(***************************************************************************)
EXTENDS BitNamesState

VARIABLES
  height,
  made,                 \* the block that made a commitment
  opened,               \* the key that a commitment opened
  owner                 \* the commitment that owns a key

registryVars == <<height, made, opened, owner>>

RegistryInit ==
  /\ height = 0
  /\ made = [c \in Commitment |-> None]
  /\ opened = [c \in Commitment |-> None]
  /\ owner = [k \in Key |-> None]

KeyOf(c) == CHOOSE k \in Key : \E s \in Salt : hmac[<<k, s>>] = c

TooOld(c) == made[c] # None /\ (height + 1) - made[c] > COMMITMENT_MAX_AGE

\* A block makes some commitments and opens some that were made before.
Block(making, opening) ==
  LET opens(c)  == IF c \in opening THEN KeyOf(c) ELSE opened[c]
      settled   == {opens(c) : c \in {c \in Commitment : TooOld(c)}}
      takers(k) == {c \in opening : KeyOf(c) = k}
  IN  /\ \A c \in making : made[c] = None
      /\ \A c \in opening : made[c] # None /\ opened[c] = None
      /\ height' = height + 1
      /\ made' = [c \in Commitment |->
                    IF TooOld(c) THEN None ELSE IF c \in making THEN height + 1 ELSE made[c]]
      /\ opened' = [c \in Commitment |-> IF TooOld(c) THEN None ELSE opens(c)]
      /\ DOMAIN owner' = Key
      /\ \A k \in Key :
           IF k \in settled THEN owner'[k] = None
           ELSE IF takers(k) # {} THEN owner'[k] \in takers(k)
           ELSE owner'[k] = owner[k]

RegistryNext == \E making, opening \in SUBSET Commitment : Block(making, opening)

RegistrySpec == RegistryInit /\ [][RegistryNext]_registryVars
=============================================================================
