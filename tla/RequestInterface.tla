-------------------------- MODULE RequestInterface --------------------------
(***************************************************************************)
(* One request document on its way through the JSON request interface: the  *)
(* RequestInterface constructor with FillFromJSON and the constructor of    *)
(* CallFunctionOperation in the receiving thread, CanBeProcessed and Call   *)
(* in the main thread (CallFunction models them), and the reply.  The       *)
(* entries of the document are abstracted to what the checks tell apart.    *)
(***************************************************************************)
EXTENDS Integers, History

CONSTANTS
  Histories,     \* what the history may hold when a request arrives
  Printed,       \* what functions print into the history
  Versions,      \* values of integer "version" entries
  IdLengths,     \* lengths of string "messageID" entries
  MaxParams,     \* bound on the length of "params"
  MaxInt,        \* the largest value of the C++ type int
  MaxIdLength    \* MAX_MESSAGEID_LENGTH

ASSUME DocumentAssumption ==
  /\ Histories \subseteq Seq(STRING) /\ Printed \subseteq Seq(STRING)
  /\ Versions \subseteq Int /\ IdLengths \subseteq Nat
  /\ MaxParams \in Nat /\ MaxInt \in Nat \ {0} /\ MaxIdLength \in Nat

\* a JSON entry: absent, of the wrong type, or of the expected type
Absent == [kind |-> "absent", val |-> 0]
Wrong  == [kind |-> "wrong", val |-> 0]
Right(v) == [kind |-> "right", val |-> v]
Entries(S) == {Absent, Wrong} \cup {Right(v) : v \in S}

\* JSON types of the elements of "params"
Elements == {"string", "number", "boolean", "other"}
ParamLists == UNION {[1..k -> Elements] : k \in 0..MaxParams}

\* "name" is given by its length, "params" by its element types; extra counts
\* the unknown entries of the CallFunction object
Documents ==
  [json : BOOLEAN, version : Entries(Versions), messageID : Entries(IdLengths),
   call : {"absent", "wrong", "object"}, name : Entries({0, 1}),
   params : {"absent", "wrong", "array"}, elems : ParamLists, extra : 0..1]

\* documents that differ only in what a missing parent entry would contain
\* are the same
Canonical(d) ==
  /\ ~d.json => d.version = Absent /\ d.messageID = Absent /\ d.call = "absent"
  /\ d.call # "object" => d.name = Absent /\ d.params = "absent" /\ d.extra = 0
  /\ d.params # "array" => d.elems = <<>>

VARIABLES
  doc,        \* the request
  stage,      \* "received", "queued" or "replied"
  messageId,  \* m_messageId: its length, 0 if not set
  nparams,    \* Len(m_params)
  history,    \* Igor Pro's history
  printed,    \* history variable: what the called function has printed
  reply       \* the reply: error code, and which entries it has

vars == <<doc, stage, messageId, nparams, history, printed, reply>>

NoReply == [code |-> "none", messageID |-> 0, history |-> <<>>, result |-> FALSE]

\* mutant: off by one at the maximum length
IsValidMessageIdTooShort(length) == length # 0 /\ length < MaxIdLength

IsValidMessageId(length) == length # 0 /\ length <= MaxIdLength

\* get<int>() of a 64 bit JSON number keeps the low bits
Ints == 2 * (MaxInt + 1)
GetInt(n) == LET m == n % Ints IN IF m > MaxInt THEN m - Ints ELSE m

Check(fails, code) == [fails |-> fails, code |-> code]

\* the code of the first check that fails
FirstFailure(checks) ==
  LET k == SelectInSeq(checks, LAMBDA c : c.fails)
  IN  IF k = 0 THEN "REQ_SUCCESS" ELSE checks[k].code

Size(d) == d.extra + (IF d.name.kind = "absent" THEN 0 ELSE 1) + (IF d.params = "absent" THEN 0 ELSE 1)

\* the checks of the constructor of RequestInterface, and FillFromJSON
RequestChecks(d) ==
  << Check(~d.json, "REQ_INVALID_JSON_OBJECT"),
     Check(d.version.kind # "right", "REQ_INVALID_VERSION"),
     Check(GetInt(d.version.val) # 1, "REQ_INVALID_VERSION"),
     Check(d.messageID.kind = "wrong", "REQ_INVALID_MESSAGEID"),
     Check(d.messageID.kind = "right" /\ ~IsValidMessageId(d.messageID.val), "REQ_INVALID_MESSAGEID"),
     Check(d.call # "object", "REQ_INVALID_OPERATION") >>

\* the checks of the constructor of CallFunctionOperation
OperationChecks(d) ==
  << Check(Size(d) \notin {1, 2}, "REQ_INVALID_OPERATION_FORMAT"),
     Check(d.name.kind # "right", "REQ_INVALID_OPERATION_FORMAT"),
     Check(d.name.val = 0, "REQ_NON_EXISTING_FUNCTION"),
     Check(d.params = "absent" /\ Size(d) # 1, "REQ_INVALID_OPERATION_FORMAT"),
     Check(d.params = "wrong", "REQ_INVALID_PARAM_FORMAT"),
     Check("other" \in Range(d.elems), "REQ_INVALID_PARAM_FORMAT") >>

ConstructorCode(d) == FirstFailure(RequestChecks(d) \o OperationChecks(d))

Init ==
  /\ doc \in {d \in Documents : Canonical(d)}
  /\ stage = "received"
  /\ messageId = 0 /\ nparams = 0
  /\ history \in Histories /\ printed = <<>>
  /\ reply = NoReply

\* mutant: the entries of the operation are counted as parameters
AcceptCountsEntries ==
  /\ stage = "received" /\ ConstructorCode(doc) = "REQ_SUCCESS"
  /\ stage' = "queued"
  /\ messageId' = IF doc.messageID.kind = "right" THEN doc.messageID.val ELSE 0
  /\ nparams' = Len(doc.elems) + Size(doc)
  /\ UNCHANGED <<doc, history, printed, reply>>

\* the request object is pushed into reqQueue ...
Accept ==
  /\ stage = "received" /\ ConstructorCode(doc) = "REQ_SUCCESS"
  /\ stage' = "queued"
  /\ messageId' = IF doc.messageID.kind = "right" THEN doc.messageID.val ELSE 0
  /\ nparams' = Len(doc.elems)
  /\ UNCHANGED <<doc, history, printed, reply>>

\* ... or the exception is turned into a reply without a request object
Reject ==
  /\ stage = "received" /\ ConstructorCode(doc) # "REQ_SUCCESS"
  /\ stage' = "replied"
  /\ reply' = [NoReply EXCEPT !.code = ConstructorCode(doc)]
  /\ UNCHANGED <<doc, messageId, nparams, history, printed>>

\* outcomes of CanBeProcessed and Call other than success
CallCodes == {"REQ_PROC_NOT_COMPILED", "REQ_NON_EXISTING_FUNCTION",
              "REQ_TOO_FEW_FUNCTION_PARAMS", "REQ_TOO_MANY_FUNCTION_PARAMS",
              "REQ_UNSUPPORTED_FUNC_SIG", "REQ_UNSUPPORTED_FUNC_RET",
              "REQ_INVALID_PARAM_FORMAT", "REQ_FUNCTION_ABORTED",
              "REQ_OUT_OF_MEMORY", "INTERNAL_ERROR"}

\* the codes of a call of a function with n parameters
CallCodesFor(n) == IF n = 0 THEN CallCodes \ {"REQ_TOO_MANY_FUNCTION_PARAMS"} ELSE CallCodes

ReplyTo(code, id, text) ==
  [code |-> code, result |-> code = "REQ_SUCCESS", history |-> text,
   messageID |-> IF IsValidMessageId(id) THEN id ELSE 0]

\* mutant: the error reply has no messageID
FunctionReplyUncorrelated(id, n) ==
  \/ /\ reply' = ReplyTo("REQ_SUCCESS", id, <<>>) /\ UNCHANGED <<history, printed>>
  \/ /\ \E code \in CallCodesFor(n) : reply' = ReplyTo(code, 0, <<>>)
     /\ UNCHANGED <<history, printed>>

\* CallIgorFunctionFromReqInterface: the function returns; or an exception is
\* turned into a reply, with the history of an aborted function, unless that
\* cannot be fetched
FunctionReply(id, n) ==
  \/ /\ \E code \in {"REQ_SUCCESS"} \cup (CallCodesFor(n) \ {"REQ_FUNCTION_ABORTED"}) :
          reply' = ReplyTo(code, id, <<>>)
     /\ UNCHANGED <<history, printed>>
  \/ \E text \in Printed, fetched \in BOOLEAN :
       /\ printed' = text /\ history' = history \o text
       /\ reply' = ReplyTo("REQ_FUNCTION_ABORTED", id,
                           IF fetched THEN GetHistoryUntilNow(history, history') ELSE <<>>)

\* CallAndReply in the main thread
CallAndReply ==
  /\ stage = "queued" /\ stage' = "replied"
  /\ FunctionReply(messageId, nparams)
  /\ UNCHANGED <<doc, messageId, nparams>>

\* the same without queue and socket (CallIgorFunctionFromMessage)
zeromq_test_callfunction ==
  LET code == ConstructorCode(doc)
      id   == IF doc.messageID.kind = "right" THEN doc.messageID.val ELSE 0
  IN  /\ stage = "received" /\ stage' = "replied"
      /\ \/ /\ code # "REQ_SUCCESS" /\ reply' = [NoReply EXCEPT !.code = code]
            /\ UNCHANGED <<history, printed>>
         \/ code = "REQ_SUCCESS" /\ FunctionReply(id, Len(doc.elems))
      /\ UNCHANGED <<doc, messageId, nparams>>

Next == Accept \/ Reject \/ CallAndReply \/ zeromq_test_callfunction

Spec == Init /\ [][Next]_vars
-----------------------------------------------------------------------------
Codes == CallCodes \cup {"none", "REQ_SUCCESS", "REQ_INVALID_JSON_OBJECT", "REQ_INVALID_VERSION",
          "REQ_INVALID_MESSAGEID", "REQ_INVALID_OPERATION", "REQ_INVALID_OPERATION_FORMAT"}

TypeOK ==
  /\ doc \in Documents
  /\ stage \in {"received", "queued", "replied"}
  /\ messageId \in IdLengths \cup {0} /\ nparams \in 0..MaxParams
  /\ printed \in Printed \cup {<<>>}
  /\ reply.code \in Codes /\ reply.messageID \in IdLengths \cup {0}

\* the table "Sent JSON message" of Readme.rst, entry by entry; the code of each
\* entry that is not as described.  A version that is 1 in the bits of an int
\* counts as 1.
Complaints(d) ==
  { c.code : c \in { x \in
      { Check(~d.json, "REQ_INVALID_JSON_OBJECT"),
        Check(d.json /\ (d.version.kind # "right" \/ d.version.val % Ints # 1), "REQ_INVALID_VERSION"),
        Check(d.messageID # Absent /\ d.messageID \notin {Right(n) : n \in 1..MaxIdLength}, "REQ_INVALID_MESSAGEID"),
        Check(d.json /\ d.call # "object", "REQ_INVALID_OPERATION"),
        Check(d.call = "object" /\ (d.name.kind # "right" \/ d.extra > 0), "REQ_INVALID_OPERATION_FORMAT"),
        Check(d.name = Right(0), "REQ_NON_EXISTING_FUNCTION"),
        Check(d.params = "wrong" \/ "other" \in Range(d.elems), "REQ_INVALID_PARAM_FORMAT") } : x.fails } }

(* The constructors accept exactly the documents the Readme describes, and  *)
(* otherwise complain about an entry that is wrong, whichever entries are   *)
(* missing, surplus or of the wrong type at the same time.                  *)
RejectsExactlyInvalid ==
  /\ ConstructorCode(doc) = "REQ_SUCCESS" <=> Complaints(doc) = {}
  /\ stage = "replied" /\ Complaints(doc) # {} => reply.code \in Complaints(doc)

(* The reply to an accepted request carries its messageID, and one only if  *)
(* the request had one, no matter how CanBeProcessed or Call end.           *)
ReplyCorrelates ==
  (stage = "replied" /\ Complaints(doc) = {}) =>
    doc.messageID = IF reply.messageID = 0 THEN Absent ELSE Right(reply.messageID)

\* text is s between its first and last other character, with LF for CR
CleanedUp(text, s) ==
  \E i, j \in DOMAIN s :
    /\ s[i] \notin Whitespace /\ s[j] \notin Whitespace
    /\ \A k \in DOMAIN s : k < i \/ k > j => s[k] \in Whitespace
    /\ text = [k \in 1..j - i + 1 |-> IF s[i + k - 1] = CR THEN LF ELSE s[i + k - 1]]

(* "Igor Pro history ouputted during function execution" (Readme.rst): the  *)
(* history in the reply to an aborted function is what the function printed *)
(* if it began and ended with a line of its own, without the white space    *)
(* around it; it is there only if the function printed something.           *)
HistoryIsPrinted ==
  LET lineBefore == Len(history) = Len(printed) \/ history[Len(history) - Len(printed)] = CR
      wholeLines == Last(printed) = CR
      visible    == \E i \in DOMAIN printed : printed[i] \notin Whitespace
  IN  reply.history # <<>> =>
        /\ reply.code = "REQ_FUNCTION_ABORTED" /\ printed # <<>>
        /\ lineBefore /\ wholeLines /\ visible => CleanedUp(reply.history, printed)
=============================================================================
