-------------------------- MODULE RetrievalEngine --------------------------
(***************************************************************************)
(* The retrieval path: TurbovecStore (retrieval/turbovec_store.py), which  *)
(* keeps vectors by position and their ids beside them, in one of two      *)
(* storage modes, and RetrievalEngine (retrieval/__init__.py), which keeps *)
(* the texts beside both.  A vector is its document; how near two are is   *)
(* left open.                                                              *)
(*                                                                         *)
(* A definition marked (fault) is a plausible bug in the definition after  *)
(* it; nothing uses it, and some property tells the two apart.             *)
(***************************************************************************)
EXTENDS Naturals, Sequences, SequencesExt

CONSTANTS
    Documents,
    BatchLengths,    \* how many vectors a call of add may bring
    MaxHeld,         \* bound on the vectors held
    Neighbours       \* values of k

VARIABLES
    mode,        \* _storage_mode
    held,        \* the vectors, quantised: documents by position
    ids,         \* _ids
    meant,       \* history: the id each vector was added with, by position
    rebuilt,     \* _reconstruct: the dequantised copy that search works on
    texts,       \* RetrievalEngine._texts
    file,        \* what save wrote: [mode, held, meant]
    hits         \* the last answer: [k, positions]

retrievalVars == <<mode, held, ids, meant, rebuilt, texts, file, hits>>

Absent    == [there |-> FALSE, of |-> << >>]
NoFile    == [mode |-> "none", held |-> << >>, meant |-> << >>]
NoHits    == [k |-> 0, positions |-> << >>]
Batches   == UNION {[1 .. n -> Documents] : n \in BatchLengths}

RetrievalInit ==
    /\ mode = "none" /\ held = << >> /\ ids = << >> /\ meant = << >>
    /\ rebuilt = Absent /\ texts = << >> /\ file = NoFile /\ hits = NoHits

-----------------------------------------------------------------------------
\* TurbovecStore() and RetrievalEngine() around it
NewStore(m) ==
    /\ mode = "none" /\ mode' = m
    /\ UNCHANGED <<held, ids, meant, rebuilt, texts, file, hits>>

\* (fault) the copy that search made is kept
InsertFault(batch) ==
    /\ held' = held \o batch
    /\ UNCHANGED rebuilt

\* _add_ram_optimised, or the index's own add
Insert(batch) ==
    /\ held' = held \o batch
    /\ rebuilt' = Absent

PositionIds(n) == [i \in 1 .. n |-> <<"position", Len(ids) + i - 1>>]

\* add, its ids of the vectors' number or left out
Add(batch, given) ==
    /\ mode # "none" /\ Len(held) + Len(batch) <= MaxHeld
    /\ Insert(batch)
    /\ given # << >> => Len(given) = Len(batch)
    /\ LET named == IF given = << >> THEN PositionIds(Len(batch)) ELSE given
       IN ids' = ids \o named /\ meant' = meant \o named
    /\ hits' = NoHits /\ UNCHANGED <<mode, file>>

AddVectors(batch, given) == Add(batch, given) /\ UNCHANGED texts

\* The number of ids is looked at when the vectors are in
AddRefused(batch) ==
    /\ mode # "none" /\ Len(held) + Len(batch) <= MaxHeld
    /\ Insert(batch)
    /\ meant' = meant \o [i \in DOMAIN batch |-> <<"none">>]
    /\ hits' = NoHits /\ UNCHANGED <<mode, ids, texts, file>>

\* RetrievalEngine.index; the embedding is before all of it
IndexTexts(batch) ==
    /\ Add(batch, [i \in DOMAIN batch |-> <<"doc", Len(texts) + i - 1>>])
    /\ texts' = texts \o batch

-----------------------------------------------------------------------------
\* The vectors a search works on: a copy that is made once, or the index
Searched ==
    IF mode = "upstream" THEN held
    ELSE IF rebuilt.there THEN rebuilt.of ELSE held

Lower(a, b) == IF a < b THEN a ELSE b

\* search: the nearest k positions, in an order that the scores decide
Search(k) ==
    /\ held # << >>
    /\ \E p \in SetToAllKPermutations(DOMAIN Searched) :
          Len(p) = Lower(k, Len(Searched)) /\ hits' = [k |-> k, positions |-> p]
    /\ rebuilt' = IF mode = "upstream" THEN rebuilt ELSE [there |-> TRUE, of |-> Searched]
    /\ UNCHANGED <<mode, held, ids, meant, texts, file>>

\* RetrievalEngine.retrieve names each position by its text and by its id
TextAt(p) == IF p \in DOMAIN texts THEN texts[p] ELSE ""
IdAt(p)   == IF p \in DOMAIN ids THEN ids[p] ELSE <<"pos", p>>

-----------------------------------------------------------------------------
Save ==
    /\ mode # "none"
    /\ file' = [mode |-> mode, held |-> held, meant |-> meant]
    /\ UNCHANGED <<mode, held, ids, meant, rebuilt, texts, hits>>

\* load, with an engine of its own.  What the storage that is optimised for RAM
\* saved is not loaded: there is no sidecar with its dimension, load raises.
Load ==
    /\ file.mode = "upstream"
    /\ mode' = "upstream" /\ held' = file.held /\ meant' = file.meant
    /\ ids' = << >> /\ texts' = << >> /\ rebuilt' = Absent /\ hits' = NoHits
    /\ UNCHANGED file

RetrievalNext ==
    \/ \E m \in {"upstream", "ram_optimised"} : NewStore(m)
    \/ \E batch \in Batches :
          \/ AddVectors(batch, << >>)
          \/ AddVectors(batch, [i \in DOMAIN batch |-> <<"given", batch[i]>>])
          \/ AddRefused(batch) \/ IndexTexts(batch)
    \/ \E k \in Neighbours : Search(k)
    \/ Save \/ Load

RetrievalSpec == RetrievalInit /\ [][RetrievalNext]_retrievalVars

-----------------------------------------------------------------------------
RetrievalTypeOK ==
    /\ mode \in {"none", "upstream", "ram_optimised"}
    /\ held \in Seq(Documents) /\ texts \in Seq(Documents)
    /\ Len(meant) = Len(held) /\ Len(ids) <= Len(held)
    /\ rebuilt.there => mode = "ram_optimised"

\* A search sees every vector that was added, those that came since the last
\* search included: an answer has as many positions as were asked for or as there
\* are vectors, no two the same (search, the copy in _reconstruct).
SearchSeesEveryVector ==
    hits # NoHits =>
        /\ Len(hits.positions) = Lower(hits.k, Len(held))
        /\ IsInjective(hits.positions)
        /\ ToSet(hits.positions) \subseteq DOMAIN held

\* Violated: get_id answers with the id a vector was added with.  After load, and
\* after an add whose ids were refused, the next ids go to other positions.
IdsNameTheirVectors ==
    \A p \in DOMAIN held : meant[p] # <<"none">> => IdAt(p) \in {meant[p], <<"pos", p>>}

\* Violated: what an engine answers with is the text of the vector it found
HitsNameTheirTexts ==
    \A i \in DOMAIN hits.positions :
        TextAt(hits.positions[i]) \in {held[hits.positions[i]], ""}
=============================================================================
