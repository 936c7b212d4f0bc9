-------------------------------- MODULE Url ---------------------------------
(***************************************************************************)
(* libarc/url.c: the functions every caller of a stream uses.  They count  *)
(* what was read against a limit and call the stream's own functions, here *)
(* those of a buffered or of a cached stream, or do without the ones a     *)
(* stream has not: the cached stream has no url_gets, and no url_seek once *)
(* that is disabled.                                                       *)
(*                                                                         *)
(* A call begins with Ask, takes one step per round of its loops, and ends *)
(* when `call' is NoCall again.  url_nread(), url_readline() and           *)
(* url_safe_read() are loops of these functions, as a caller may write     *)
(* them.                                                                   *)
(***************************************************************************)
EXTENDS UrlBuffer, UrlCache

CONSTANTS
  Kinds,           \* "buff", "cache": the streams of the run
  Calls,           \* the requests of the run
  Openings,        \* where the reader may stand when the stream is opened
  BUFSIZ

(* what a caller may ask for: a number of bytes is not negative, and       *)
(* url_set_readlimit() takes -1 for no limit                               *)
Request(c) ==
  /\ c.op \in {"read", "getc", "gets", "skip", "seek", "rewind", "limit",
               "disable", "detach", "reopen"}
  /\ c.n \in Int
  /\ c.op \in {"read", "gets", "skip"} => c.n >= 0
  /\ c.op = "getc" => c.n = 1
  /\ c.op = "seek" => c.whence \in {"set", "cur", "end"}
  /\ c.op = "limit" => c.n >= -1

ASSUME UrlAssumption ==
  /\ Kinds \subseteq {"buff", "cache"} /\ Openings \subseteq Nat
  /\ BUFSIZ \in Nat \ {0}
  /\ NoCall.op = "none" /\ \A c \in Calls : Request(c)

VARIABLES
  kind,
  nread, readlimit,
  rest,            \* what url_skip() has still to read
  far, lost, counted  \* history: furthest position, bytes of the source lost
                      \* before position 0, bytes returned since nread was 0

url_vars == <<buff_vars, cache_vars, kind, nread, readlimit, rest,
              far, lost, counted>>

(* Without a limit the count is left at 0: nothing looks at it then, and   *)
(* setting a limit clears it.                                              *)
NoLimit == -1                                      \* URL_MAX_READLIMIT
Counted(n) == IF readlimit = NoLimit THEN 0 ELSE nread + n

url_tell == IF kind = "buff" THEN pos + posofs ELSE cpos

UrlInit ==
  /\ kind \in Kinds
  /\ reader \in (IF kind = "buff" THEN Openings ELSE {0})
  /\ BuffOpen(reader) /\ CacheOpen
  /\ call = NoCall /\ out = <<>>
  /\ nread = 0 /\ readlimit = NoLimit /\ rest = 0
  /\ far = url_tell /\ lost = 0 /\ counted = 0

HasSeek == kind = "buff" \/ url_seek

Buffered == kind = "buff" /\ UNCHANGED cache_vars
Cached == kind = "cache" /\ UNCHANGED buff

-----------------------------------------------------------------------------
Ask ==
  /\ call = NoCall
  /\ call' \in Calls /\ (call'.op = "reopen" => kind = "cache")
  /\ out' = <<>>
  /\ rest' = IF call'.op \in {"skip", "seek"} THEN call'.n ELSE 0
  /\ UNCHANGED <<buff, cache_vars, reader, kind, nread, readlimit>>

AtLimit == readlimit # NoLimit /\ nread >= readlimit
Unlimited(n) == n                                                  \* mutant
Allowed(n) ==
  IF readlimit # NoLimit /\ nread + n > readlimit THEN readlimit - nread ELSE n

Nothing ==
  /\ Return
  /\ UNCHANGED <<buff, cache_vars, reader, out, nread>>

(* url_read() *)
UrlRead ==
  /\ call.op = "read"
  /\ IF AtLimit THEN Nothing
     ELSE /\ \/ Buffered /\ BuffRead(Allowed(call.n))
             \/ Cached /\ CacheRead(Allowed(call.n), TRUE)
          /\ nread' = Counted(Len(out'))
          /\ Return
  /\ UNCHANGED rest

(* url_getc(): the byte is counted whether there is one or not. *)
UrlGetc ==
  /\ call.op = "getc"
  /\ IF AtLimit THEN Nothing
     ELSE /\ (Buffered /\ BuffFgetc) \/ (Cached /\ CacheRead(1, TRUE))
          /\ nread' = Counted(1)
          /\ Return
  /\ UNCHANGED rest

(* url_gets() of a stream with the function; the limit leaves room for the *)
(* final zero                                                              *)
UrlGets ==
  LET n == IF readlimit # NoLimit /\ nread + call.n > readlimit
           THEN readlimit - nread + 1 ELSE call.n
  IN  /\ call.op = "gets"
      /\ IF AtLimit /\ loop = "none" THEN Nothing
         ELSE /\ Buffered /\ BuffGets(n)
              /\ nread' = IF call' = NoCall THEN Counted(Len(out')) ELSE nread
      /\ UNCHANGED rest

(* ... and without it: one round of url_getc() *)
UrlGetsByByte ==
  /\ call.op = "gets" /\ kind = "cache"
  /\ IF AtLimit \/ call.n <= 1 THEN Nothing
     ELSE /\ Cached /\ CacheRead(1, TRUE)
          /\ nread' = Counted(1)
          /\ IF out' = out \/ out'[Len(out')] \in Newlines \/ Len(out') = call.n - 1
             THEN Return ELSE Continue
  /\ UNCHANGED rest

-----------------------------------------------------------------------------
(* one round of the reading loop of url_skip(), with n bytes to go, of     *)
(* which url_read() is asked for `ask'                                     *)
ReadOn(n, ask) ==
  /\ Cached /\ CacheRead(ask, FALSE)
  /\ rest' = rest - (cpos' - cpos)
  /\ IF cpos' = cpos \/ n = cpos' - cpos THEN Return ELSE Continue

(* url_seek() of a stream without the function: forward by reading, with   *)
(* no limit                                                                *)
UrlSeekByReading ==
  /\ call.op = "seek" /\ ~HasSeek /\ call.whence # "end"
  /\ LET n == IF call.whence = "set" THEN call.n - url_tell ELSE rest
     IN  IF n <= 0 THEN Nothing /\ UNCHANGED rest
         ELSE /\ ReadOn(n, Least(n, BUFSIZ))
              /\ nread' = IF call' = NoCall THEN 0 ELSE Counted(cpos' - cpos)

UrlSeekRefused ==
  /\ call.op = "seek" /\ ~HasSeek /\ call.whence = "end"
  /\ Nothing /\ UNCHANGED rest

(* ... and with it *)
UrlSeek ==
  /\ call.op = "seek" /\ HasSeek
  /\ nread' = 0
  /\ \/ Buffered /\ BuffSeek(call.n, call.whence)
     \/ /\ Cached /\ Return
        /\ CacheSeekNear(call.n, call.whence) \/ (call.whence = "end" /\ CacheSeekEnd)
  /\ UNCHANGED rest

(* url_skip() with the stream's own seek ... *)
UrlSkipBySeek ==
  /\ call.op = "skip" /\ HasSeek
  /\ LET n == Allowed(call.n)
     IN  IF AtLimit THEN Nothing
         ELSE /\ \/ Buffered /\ BuffSeek(n, "cur")
                 \/ Cached /\ Return /\ CacheSeekNear(n, "cur")
              /\ nread' = IF call' = NoCall THEN Counted(n) ELSE nread
  /\ UNCHANGED rest

(* ... and without it *)
UrlSkipByReading ==
  /\ call.op = "skip" /\ ~HasSeek
  /\ IF AtLimit THEN Nothing /\ UNCHANGED rest
     ELSE /\ ReadOn(rest, Allowed(Least(rest, BUFSIZ)))
          /\ nread' = Counted(cpos' - cpos)

(* url_rewind(), which does not look at what its seek returns *)
UrlRewind ==
  /\ call.op = "rewind"
  /\ nread' = 0
  /\ \/ Buffered /\ BuffSeek(0, "set")
     \/ Cached /\ url_seek /\ Return /\ CacheSeekNear(0, "set")
     \/ Cached /\ ~url_seek /\ Return /\ UNCHANGED <<cache_vars, reader, out>>
  /\ UNCHANGED rest

(* url_set_readlimit() *)
UrlSetReadlimit ==
  /\ call.op = "limit" /\ Return
  /\ readlimit' = call.n /\ nread' = 0
  /\ UNCHANGED <<buff, cache_vars, reader, out, rest>>

(* The calls that only a cached stream answers. *)
UrlCacheCall ==
  /\ kind = "cache" /\ Return
  /\ \/ call.op = "disable" /\ CacheDisable
     \/ call.op = "detach" /\ CacheDetach
     \/ call.op = "reopen" /\ CacheReopen
  /\ UNCHANGED <<buff, nread, rest>>
UrlNotACache ==
  /\ kind = "buff" /\ call.op \in {"disable", "detach"}
  /\ Nothing /\ UNCHANGED rest

-----------------------------------------------------------------------------
Handle ==
  \/ /\ \/ UrlRead \/ UrlGetc \/ UrlGets \/ UrlGetsByByte
        \/ UrlSeekByReading \/ UrlSeekRefused \/ UrlSeek
        \/ UrlSkipBySeek \/ UrlSkipByReading \/ UrlRewind
        \/ UrlCacheCall \/ UrlNotACache
     /\ UNCHANGED readlimit
  \/ UrlSetReadlimit

(* how far the position has moved in a call that has not returned *)
Underway ==
  CASE kind = "cache" /\ call.op = "gets" -> Len(out)
    [] call.op = "skip" \/ (call.op = "seek" /\ call.whence = "cur") -> call.n - rest
    [] OTHER -> 0

Record ==
  /\ lost' = IF call # NoCall /\ call.op = "reopen" THEN reader ELSE lost
  /\ far' = IF call # NoCall /\ call.op = "reopen" THEN 0
            ELSE Max({far, url_tell' - Underway'})
  /\ counted' = IF readlimit' = NoLimit
                   \/ (call # NoCall /\ call.op \in {"seek", "rewind", "limit"}) THEN 0
                ELSE counted + (IF call' = NoCall THEN Len(out') ELSE 0)

UrlNext ==
  /\ UNCHANGED kind
  /\ Ask \/ (call # NoCall /\ Handle)
  /\ Record

UrlSpec == UrlInit /\ [][UrlNext]_url_vars

-----------------------------------------------------------------------------
(* Both streams are the stream of ByteStream: whatever was read, sought,   *)
(* skipped and rewound before, each byte returned is the one at the        *)
(* position told, a seek arrives where it should unless the source has no  *)
(* more or a buffered stream would have to go back further than            *)
(* URL_BUFF_SIZE - 2, and a cached stream never refuses.                   *)
Stream == INSTANCE ByteStream WITH
  at <- url_tell - Underway, first <- posofs, Window <- URL_BUFF_SIZE - 2,
  mode <- (IF kind = "buff" THEN "window" ELSE IF url_seek THEN "kept" ELSE "forward"),
  out <- (IF call = NoCall THEN out ELSE <<>>)
ImplementsByteStream == Stream!Spec

(* A caller that has set a limit never gets more than that, whatever calls *)
(* it uses, until it moves or sets another.                                *)
LimitKept == readlimit # NoLimit => counted <= readlimit
=============================================================================
