---------------------------- MODULE HeaderStore ----------------------------
(* headers/header_store.py: the in-memory cache of recent headers in front   *)
(* of the headers table.  A header is represented by its block.  The actions *)
(* constrain cache' and tipHeight' only; `headers` is the table as the call  *)
(* reads it.                                                                 *)
EXTENDS ChainNode, FiniteSets

CONSTANT CacheSize   \* HeaderStore's cache_size

ASSUME CacheAssumption == CacheSize \in Nat

VARIABLES
    cache,      \* _cache: height -> header
    tipHeight   \* _tip_height

StoreEmpty == cache = EmptyTable /\ tipHeight = -1

StoreReset == cache' = EmptyTable /\ tipHeight' = -1

(* load_cache: the tip, and the last CacheSize rows below it.                *)
LoadCache(headers) ==
    LET tip    == TipHeight(headers)
        start  == IF tip - CacheSize + 1 > 0 THEN tip - CacheSize + 1 ELSE 0
        loaded == {h \in DOMAIN headers : start <= h /\ h < start + CacheSize}
    IN IF tip = -1
       THEN UNCHANGED <<cache, tipHeight>>
       ELSE /\ tipHeight' = tip
            /\ cache' = [h \in DOMAIN cache \cup loaded |->
                            IF h \in loaded THEN headers[h] ELSE cache[h]]

Oldest(t) == CHOOSE h \in DOMAIN t : \A k \in DOMAIN t : h <= k

(* add_to_cache: insert, raise the tip, evict the lowest height if over size. *)
AddToCache(h, b) ==
    LET full == Put(cache, h, b)
    IN /\ cache' = IF Cardinality(DOMAIN full) > CacheSize
                   THEN Drop(full, Oldest(full)) ELSE full
       /\ tipHeight' = IF h > tipHeight THEN h ELSE tipHeight

\* A plausible slip: the tip is lowered but the header stays cached.
RemoveFromCacheKeeps(h) ==
    /\ cache' = cache
    /\ tipHeight' = IF h = tipHeight THEN h - 1 ELSE tipHeight

\* A plausible slip: the header goes but the tip height is left alone.
RemoveFromCacheTipStays(h) ==
    /\ cache' = Drop(cache, h)
    /\ tipHeight' = tipHeight

(* remove_from_cache.                                                        *)
RemoveFromCache(h) ==
    /\ cache' = Drop(cache, h)
    /\ tipHeight' = IF h = tipHeight THEN h - 1 ELSE tipHeight

(* get_header: a hit changes nothing; a row found on a miss is cached when   *)
(* it is recent enough.                                                      *)
GetHeader(headers, h) ==
    /\ cache' = IF /\ h \notin DOMAIN cache
                   /\ h \in DOMAIN headers
                   /\ h > tipHeight - CacheSize
                THEN Put(cache, h, headers[h]) ELSE cache
    /\ tipHeight' = tipHeight
=============================================================================
