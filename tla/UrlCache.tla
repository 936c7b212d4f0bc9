------------------------------ MODULE UrlCache ------------------------------
(***************************************************************************)
(* The cached stream of libarc/url_cache.c: what is read is kept in memory *)
(* so that the caller may go back, until it says that it will not; the     *)
(* rest of what is kept is then used up and the memory released.  The      *)
(* program looks at the head of a file through it and rewinds.             *)
(***************************************************************************)
EXTENDS UrlReader, MemBuffer

VARIABLES
  memb_ok, b,
  cpos,        \* its `pos'
  url_seek,    \* the stream still has its seek function
  attached     \* urlp->reader # NULL

cache == <<memb_ok, b, url_seek, attached>>
cache_vars == <<cache, cpos>>

(* url_cache_open() *)
CacheOpen ==
  /\ memb_ok = TRUE /\ b = NoMemory /\ cpos = 0 /\ url_seek = TRUE /\ attached = TRUE

Supply(n) == IF attached THEN Given(n) ELSE {0}

(* Bytes go on in the caller's memory, or to the scratch memory of a skip. *)
Into(kept, s) == out' = IF kept THEN out \o s ELSE out

(* straight from the reader *)
Direct(n, kept) ==
  \E k \in Supply(n) :
    /\ Into(kept, Bytes(reader, k))
    /\ reader' = reader + k /\ cpos' = cpos + k

(* ... keeping the bytes *)
Keep(k) ==
  /\ b' = IF k > 0 THEN AtTail(push_memb(b, Bytes(reader, k))) ELSE b
  /\ reader' = reader + k

(* url_cache_read(), and url_cache_fgetc() with n = 1 *)
CacheRead(n, kept) ==
  \/ /\ ~memb_ok /\ Direct(n, kept) /\ UNCHANGED cache
  \/ /\ memb_ok /\ cpos < b.total_size
     /\ LET got == read_memb(b, Least(n, b.total_size - cpos))
        IN  b' = got.memb /\ Into(kept, got.bytes) /\ cpos' = cpos + Len(got.bytes)
     /\ UNCHANGED <<memb_ok, url_seek, attached, reader>>
  \/ /\ memb_ok /\ cpos >= b.total_size /\ ~url_seek
     /\ memb_ok' = FALSE /\ b' = NoMemory                  \* delete_memb()
     /\ Direct(n, kept) /\ UNCHANGED <<url_seek, attached>>
  \/ /\ memb_ok /\ cpos >= b.total_size /\ url_seek
     /\ \E k \in Supply(n) :
          /\ Keep(k)
          /\ Into(kept, Bytes(reader, k)) /\ cpos' = cpos + k
     /\ UNCHANGED <<memb_ok, url_seek, attached>>

(* url_cache_seek() to the position `to': within memory first, then byte   *)
(* by byte with url_cache_fgetc() as far as the reader gives any           *)
SeekWithoutRewind(to) ==                                           \* mutant
  LET back == to < cpos
      n == IF back THEN to ELSE to - cpos
      skipped == skip_read_memb(b, n)
      begun == (IF back THEN 0 ELSE cpos) + skipped.n
  IN  \E k \in IF n > skipped.n THEN Supply(n - skipped.n) ELSE {0} :
        /\ b' = IF k > 0 THEN AtTail(push_memb(skipped.memb, Bytes(reader, k)))
                ELSE skipped.memb
        /\ reader' = reader + k
        /\ cpos' = begun + k
SeekTo(to) ==
  LET back == to < cpos
      n == IF back THEN to ELSE to - cpos
      skipped == skip_read_memb(IF back THEN rewind_memb(b) ELSE b, n)
      begun == (IF back THEN 0 ELSE cpos) + skipped.n
  IN  \E k \in IF n > skipped.n THEN Supply(n - skipped.n) ELSE {0} :
        /\ b' = IF k > 0 THEN AtTail(push_memb(skipped.memb, Bytes(reader, k)))
                ELSE skipped.memb
        /\ reader' = reader + k
        /\ cpos' = begun + k

CacheSeekNear(offset, whence) ==
  /\ whence # "end"
  /\ SeekTo(Max({0, IF whence = "set" THEN offset ELSE cpos + offset}))
  /\ UNCHANGED <<memb_ok, url_seek, attached, out>>

(* SEEK_END reads what there is.  The place to go is then computed with    *)
(* the value of `whence', 2, in place of the offset, and from the position *)
(* before reading, so that it always lies ahead: the cursor stays.         *)
CacheSeekEnd ==
  /\ \E k \in Supply(SourceLength) :
       LET kept == read_memb(b, b.total_size - cpos).memb
       IN  /\ b' = IF k > 0 THEN AtTail(push_memb(kept, Bytes(reader, k))) ELSE kept
           /\ reader' = reader + k
           /\ cpos' = b.total_size + k
  /\ UNCHANGED <<memb_ok, url_seek, attached, out>>

(* url_cache_disable() *)
CacheDisable ==
  /\ url_seek' = FALSE
  /\ UNCHANGED <<memb_ok, b, attached, reader, cpos, out>>

(* url_cache_detach() *)
CacheDetach ==
  /\ attached' = FALSE
  /\ UNCHANGED <<memb_ok, b, url_seek, reader, cpos, out>>

(* url_cache_open() of a cached stream: the memory is deleted, the reader  *)
(* stays where it is.                                                      *)
CacheReopen ==
  /\ memb_ok' = TRUE /\ b' = NoMemory /\ url_seek' = TRUE /\ cpos' = 0
  /\ UNCHANGED <<attached, reader, out>>
=============================================================================
