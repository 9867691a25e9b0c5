----------------------------- MODULE CachedReader -----------------------------
(***************************************************************************)
(* DataCache as an implementation of FileReader: each call is answered as  *)
(* if the file were read directly.                                         *)
(***************************************************************************)
EXTENDS DataCache

(* The bytes a call has delivered when it returns, seen through its        *)
(* pointer for Get.  Requests beyond the end of the file promise nothing.  *)
Delivered ==
    IF phase # "returned" \/ request.offset > fileSize THEN <<>>
    ELSE IF request.op \in {"get", "object"} THEN Shown(view)
    ELSE copied

Stage ==
    CASE phase = "idle" -> "ready"
      [] phase = "returned" -> "answered"
      [] OTHER -> "serving"

Reader == INSTANCE FileReader WITH
    size   <- fileSize,
    asked  <- request,
    answer <- Delivered,
    stage  <- Stage

(* Whatever the windows, the refills and the failures, callers cannot tell *)
(* the cache from a file they read directly.                               *)
ImplementsFileReader == Reader!Spec
===============================================================================
