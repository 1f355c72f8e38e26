------------------------------- MODULE Retrieval -------------------------------
(***************************************************************************)
(* Searches of a project's uploaded documents, app/retrieval/local_index.py,*)
(* beside the uploads that store them and the failed ones that remove them. *)
(* A search reads the ownership rows, then a signature of the directory,   *)
(* then loads the files, or finds them loaded: _load_chunks is cached by   *)
(* the signature, for all the searches of a process.                       *)
(*                                                                         *)
(* A document's name is made of its content, so that a file that is stored *)
(* again holds the same text with a newer time.                            *)
(***************************************************************************)
EXTENDS Integers, FiniteSets

CONSTANTS
  Files,       \* the documents of the project
  Large,       \* those with more text than MAX_INDEX_FILE_BYTES
  Searches,
  MaxStamp,    \* bound: how often a file is stored
  Limits,      \* those of a request: max_sources
  Offers,      \* bound: how many chunks of one kind can match
  MaxCached    \* maxsize of lru_cache

ASSUME RetrievalAssumption ==
  /\ Large \subseteq Files /\ IsFiniteSet(Files)
  /\ MaxStamp \in Nat /\ MaxCached \in Nat \ {0}
  /\ Limits \subseteq Nat \ {0} /\ Offers \subseteq Nat /\ 0 \in Offers

VARIABLES
  stamp,     \* of each file: st_mtime_ns, or 0 when there is none
  clock,     \* the last stamp that was given
  owned,     \* the documents with a row in resource_ownership
  cached,    \* pairs of a signature and the files that were loaded for it
  search     \* what each search is doing

retrievalVars == <<stamp, clock, owned, cached, search>>

Present == {f \in Files : stamp[f] # 0}

Signatures == SUBSET (Files \X (1 .. MaxStamp))

\* Two files are not stored in the same nanosecond.
Stamped == {<<f, stamp[f]>> : f \in Present}

\* How many are found, and kept.
Sources == [public : Nat, uploaded : Nat, local : Nat]
NoSources == [public |-> 0, uploaded |-> 0, local |-> 0]

\* found: the documents with chunks to rank.  steady is no part of the code: the documents
\* which the search was allowed and whose file has not gone since.
Search == [pc : {"new", "scoped", "signed", "listed", "found", "merged", "failed"},
           allowed : SUBSET Files, steady : SUBSET Files, key : Signatures,
           todo : SUBSET Files, loaded : SUBSET Files, found : SUBSET Files,
           limit : {0} \cup Limits, offered : Sources, kept : Sources]

NewSearch == [pc |-> "new", allowed |-> {}, steady |-> {}, key |-> {}, todo |-> {}, loaded |-> {},
              found |-> {}, limit |-> 0, offered |-> NoSources, kept |-> NoSources]

Searching(s, new) == search' = [search EXCEPT ![s] = new] /\ UNCHANGED <<stamp, clock, owned>>

-----------------------------------------------------------------------------
(* Uploads, of which Documents has the steps.                              *)

StoreDocument(f) ==
  /\ f \notin Present /\ clock < MaxStamp
  /\ stamp' = [stamp EXCEPT ![f] = clock + 1]
  /\ clock' = clock + 1
  /\ UNCHANGED <<owned, cached, search>>

\* Its file may have gone since it was found.
RegisterDocument(f) ==
  /\ f \notin owned
  /\ owned' = owned \cup {f}
  /\ UNCHANGED <<stamp, clock, cached, search>>

\* The undo of an upload that could not be registered.
RemoveDocument(f) ==
  /\ f \in Present
  /\ stamp' = [stamp EXCEPT ![f] = 0]
  /\ search' = [s \in Searches |-> [search[s] EXCEPT !.steady = @ \ {f}]]
  /\ UNCHANGED <<clock, owned, cached>>

-----------------------------------------------------------------------------
(* retrieve_sources.                                                       *)

\* _uploaded_document_scope
Scope(s) ==
  /\ search[s].pc = "new"
  /\ Searching(s, [NewSearch EXCEPT !.pc = "scoped", !.allowed = owned,
                                    !.steady = owned \cap Present])
  /\ UNCHANGED cached

\* Fault: the times of the files are left out.
SignatureOfNames == {<<f, 1>> : f \in Present}

\* _knowledge_base_signature: a file that goes while it is looked at is left out, too.
Signature == Stamped

Sign(s) ==
  /\ search[s].pc = "scoped"
  /\ Searching(s, [search[s] EXCEPT !.pc = "signed", !.key = Signature])
  /\ UNCHANGED cached

\* Only the files with an owner's row.
Found(s, loaded) == loaded \cap search[s].allowed

Finds(s, loaded) ==
  [search[s] EXCEPT !.pc = "found", !.key = {}, !.todo = {}, !.loaded = {},
                    !.found = Found(s, loaded)]

\* _load_chunks, when the signature was loaded before.
Hit(s) ==
  /\ search[s].pc = "signed"
  /\ \E entry \in cached : entry[1] = search[s].key /\ Searching(s, Finds(s, entry[2]))
  /\ UNCHANGED cached

\* Otherwise the files are listed anew.
Miss(s) ==
  /\ search[s].pc = "signed"
  /\ ~ \E entry \in cached : entry[1] = search[s].key
  /\ Searching(s, [search[s] EXCEPT !.pc = "listed", !.todo = Present])
  /\ UNCHANGED cached

\* A file that has gone since fails the search; a large one is left out.
LoadFile(s, f) ==
  /\ search[s].pc = "listed" /\ f \in search[s].todo
  /\ Searching(s, IF f \in Present
                  THEN [search[s] EXCEPT !.todo = @ \ {f},
                                         !.loaded = IF f \in Large THEN @ ELSE @ \cup {f}]
                  ELSE [NewSearch EXCEPT !.pc = "failed"])
  /\ UNCHANGED cached

\* What was loaded is cached, unless another search has cached the signature meanwhile; an
\* entry makes room when there are too many.
Loaded(s) ==
  LET entry == <<search[s].key, search[s].loaded>>
      known == \E e \in cached : e[1] = entry[1]
  IN  /\ search[s].pc = "listed" /\ search[s].todo = {}
      /\ \/ known /\ cached' = cached
         \/ ~ known /\ Cardinality(cached) < MaxCached /\ cached' = cached \cup {entry}
         \/ ~ known /\ Cardinality(cached) = MaxCached
              /\ \E oldest \in cached : cached' = (cached \ {oldest}) \cup {entry}
      /\ Searching(s, Finds(s, search[s].loaded))

Smaller(a, b) == IF a <= b THEN a ELSE b
Larger(a, b) == IF a >= b THEN a ELSE b

\* _merge_retrieved_sources: the first of each are kept; uploaded documents go before the
\* others of the own base.
Merged(limit, offered) ==
  LET preferred == offered.uploaded + offered.local
      reserve == Smaller(preferred, Larger(1, limit \div 5))
      taken == IF preferred = 0 THEN Smaller(offered.public, limit)
               ELSE Smaller(offered.public, limit - reserve)
      own == Smaller(preferred, limit - taken)
      first == Smaller(offered.uploaded, own)
  IN  [public |-> taken, uploaded |-> first, local |-> own - first]

\* Ranking leaves at most limit chunks of each kind that match.  Whether the vectors come
\* from a model, or are computed here when it fails or its endpoint is blocked, changes
\* only which ones.
MergeSources(s) ==
  /\ search[s].pc = "found"
  /\ \E limit \in Limits : \E public, uploaded, local \in {n \in Offers : n <= limit} :
       LET offered == [public |-> public, uploaded |-> uploaded, local |-> local]
       IN  /\ search[s].found = {} => uploaded = 0
           /\ Searching(s, [NewSearch EXCEPT !.pc = "merged", !.limit = limit,
                               !.offered = offered, !.kept = Merged(limit, offered)])
  /\ UNCHANGED cached

\* The process is restarted: its cache and its searches are lost.
RestartIndex ==
  /\ cached' = {}
  /\ search' = [s \in Searches |-> NewSearch]
  /\ UNCHANGED <<stamp, clock, owned>>

RetrievalInit ==
  /\ stamp = [f \in Files |-> 0] /\ clock = 0
  /\ owned = {} /\ cached = {}
  /\ search = [s \in Searches |-> NewSearch]

RetrievalNext ==
  \/ \E f \in Files : StoreDocument(f) \/ RegisterDocument(f) \/ RemoveDocument(f)
  \/ \E s \in Searches :
       \/ Scope(s) \/ Sign(s) \/ Hit(s) \/ Miss(s) \/ Loaded(s) \/ MergeSources(s)
       \/ \E f \in Files : LoadFile(s, f)
  \/ RestartIndex

RetrievalSpec == RetrievalInit /\ [][RetrievalNext]_retrievalVars

-----------------------------------------------------------------------------
RetrievalTypeOK ==
  /\ stamp \in [Files -> 0 .. MaxStamp] /\ clock \in 0 .. MaxStamp
  /\ owned \subseteq Files
  /\ cached \subseteq Signatures \X SUBSET Files
  /\ search \in [Searches -> Search]

\* What is ranked are registered documents only, and all of those that were there when the
\* search began and have not gone since, the large ones aside, although it may have been
\* loaded by another search, long ago, while files came and went.
SearchSeesRegistered ==
  \A s \in Searches : search[s].pc = "found" =>
    /\ search[s].found \subseteq search[s].allowed
    /\ search[s].steady \ Large \subseteq search[s].found

\* As many sources are used as there are and the request wants, and a fifth of them, at
\* least one, are of the own base when it has so many.
MergeIsFull ==
  \A s \in Searches : search[s].pc = "merged" =>
    LET offered == search[s].offered
        kept == search[s].kept
        own == offered.uploaded + offered.local
    IN  /\ kept.public + kept.uploaded + kept.local = Smaller(search[s].limit, offered.public + own)
        /\ \A kind \in DOMAIN kept : kept[kind] <= offered[kind]
        /\ kept.uploaded + kept.local >= Smaller(own, Larger(1, search[s].limit \div 5))
        /\ kept.local > 0 => kept.uploaded = offered.uploaded

\* What a search returns, beside uploads and other searches: nothing is missing of what it
\* may see, and no place is left empty that a source could have.
SearchIsComplete == SearchSeesRegistered /\ MergeIsFull
=============================================================================
