----------------------------- MODULE FeaturedRules -----------------------------
(***************************************************************************)
(* `pull curated_rules`: Google's featured rules as files, one after the   *)
(* other, and an index that counts them (PullCuratedRules). A file is named*)
(* by the slug of the rule; if there is a file of that name, the short id  *)
(* of the rule is appended. Nothing is ever removed from the directory.    *)
(*                                                                         *)
(* A rule's folder (category, rule set) is part of its slug here, as a     *)
(* name has to be free in its folder only.                                 *)
(***************************************************************************)
EXTENDS Naturals, FiniteSets

CONSTANTS
  Rules,     \* ids of rules
  Slugs,
  Short,     \* the first eight characters of each rule's id
  Texts,
  MaxPulls,  \* bound on pulls
  MaxVendor, \* bound on changes by Google
  Plain,     \* "no short id", in a file's name
  NoRule, NoFile, NoText

ASSUME FeaturedAssumption ==
  /\ IsFiniteSet(Rules)
  /\ Plain \notin {Short[r] : r \in Rules}
  /\ NoFile \notin Texts /\ NoText \notin Texts
  /\ NoRule \notin [slug : Slugs, text : Texts]

VARIABLES
  featured, \* the rules of the instance
  sources,  \* .yaral files by name: a slug and Plain or a short id
  records,  \* .yaml files: the rule each is about
  index,    \* _index.yaml: how many rules there are
  pulling,  \* a pull is running
  listed,   \* the rules as the pull listed them
  left,     \* those still to be written
  written,  \* how many were written
  pulls, vendorMoves,
  (* History, read by properties only. *)
  pulledWhole \* nothing failed or changed since the last pull began, and it is over

featuredLocals == <<listed, left, written>>
featuredVars == <<featured, sources, records, index, pulling, featuredLocals, pulls,
                  vendorMoves, pulledWhole>>

Rule == [slug : Slugs, text : Texts]
Names == Slugs \X ({Plain} \cup {Short[r] : r \in Rules})
There(all) == {r \in Rules : all[r] # NoRule}

-----------------------------------------------------------------------------
(* The pull *)

StartPull ==
  /\ ~pulling /\ pulls < MaxPulls
  /\ pulls' = pulls + 1
  /\ pulling' = TRUE
  /\ listed' = featured /\ left' = There(featured) /\ written' = 0
  /\ pulledWhole' = FALSE
  /\ UNCHANGED <<featured, sources, records, index, vendorMoves>>

\* Mutant: the name is the slug.
NameBySlug(r) == <<listed[r].slug, Plain>>

\* The name is free, or the short id makes it another.
FileName(r) ==
  <<listed[r].slug, IF sources[<<listed[r].slug, Plain>>] = NoFile THEN Plain ELSE Short[r]>>

\* The pull ends with an error, or is killed.
StopPull ==
  /\ pulling' = FALSE /\ left' = {} /\ written' = 0
  /\ UNCHANGED listed

\* One rule, in the order of the listing, whatever it is: the source, or a stub if Google
\* hides it, then the record. Either write may fail.
WriteRule ==
  /\ pulling
  /\ \E r \in left :
       LET name == FileName(r)
       IN  \/ /\ sources' = [sources EXCEPT ![name] = listed[r].text]
              /\ records' = [records EXCEPT ![name] = r]
              /\ left' = left \ {r} /\ written' = written + 1
              /\ UNCHANGED <<pulling, listed>>
           \/ /\ \E torn \in {NoText, listed[r].text} :
                   sources' = [sources EXCEPT ![name] = torn]
              /\ UNCHANGED records
              /\ StopPull
  /\ UNCHANGED <<featured, index, pulls, vendorMoves, pulledWhole>>

WriteIndex ==
  /\ pulling /\ left = {}
  /\ \/ index' = written /\ pulledWhole' = (listed = featured)
     \/ UNCHANGED <<index, pulledWhole>>
  /\ StopPull
  /\ UNCHANGED <<featured, sources, records, pulls, vendorMoves>>

-----------------------------------------------------------------------------
(* Google changes, adds or withdraws a rule *)

VendorMove ==
  /\ vendorMoves < MaxVendor /\ vendorMoves' = vendorMoves + 1
  /\ \E r \in Rules, now \in Rule \cup {NoRule} :
       /\ featured[r] # now
       /\ featured' = [featured EXCEPT ![r] = now]
  /\ pulledWhole' = FALSE
  /\ UNCHANGED <<sources, records, index, pulling, featuredLocals, pulls>>

-----------------------------------------------------------------------------
(* Specification *)

FeaturedInit ==
  /\ featured \in [Rules -> Rule \cup {NoRule}]
  /\ sources = [n \in Names |-> NoFile] /\ records = [n \in Names |-> NoRule]
  /\ index = 0
  /\ pulling = FALSE /\ listed = featured /\ left = {} /\ written = 0
  /\ pulls = 0 /\ vendorMoves = 0 /\ pulledWhole = FALSE

FeaturedNext == StartPull \/ WriteRule \/ WriteIndex \/ VendorMove

FeaturedSpec == FeaturedInit /\ [][FeaturedNext]_featuredVars

-----------------------------------------------------------------------------
(* Properties *)

\* Every variable has its type.
FeaturedTypeOK ==
  /\ featured \in [Rules -> Rule \cup {NoRule}]
  /\ listed \in [Rules -> Rule \cup {NoRule}]
  /\ sources \in [Names -> Texts \cup {NoText, NoFile}]
  /\ records \in [Names -> Rules \cup {NoRule}]
  /\ index \in Nat /\ written \in Nat
  /\ pulling \in BOOLEAN /\ pulledWhole \in BOOLEAN
  /\ left \subseteq There(listed)
  /\ pulls \in Nat /\ vendorMoves \in Nat

\* No two rules of one slug have the same short id.
ShortsDiffer ==
  \A r, s \in There(featured) :
    r # s /\ featured[r].slug = featured[s].slug => Short[r] # Short[s]

\* After a pull that succeeds, whatever earlier pulls left behind or broke off in, every rule
\* of the instance has a file with its text and a record about it, and the index counts the
\* rules ("slug collisions within a rule set are disambiguated", pull_curated.go:280-281).
EveryRuleFiled ==
  pulledWhole /\ ShortsDiffer =>
    /\ index = Cardinality(There(featured))
    /\ \A r \in There(featured) :
         \E n \in Names : sources[n] = featured[r].text /\ records[n] = r

\* The files are a snapshot of the rules ("PullCuratedRules snapshots featured/Content-Hub
\* curated rules with full YARA-L source", pull_curated.go:272-273): after a pull that
\* succeeds, no file tells a text that its rule no longer has.
FilesCurrent ==
  pulledWhole => \A n \in Names :
    records[n] \in There(featured) => sources[n] = featured[records[n]].text
=============================================================================
