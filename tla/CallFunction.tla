---------------------------- MODULE CallFunction ----------------------------
(***************************************************************************)
(* One CallFunction operation in the main thread: the check of the call     *)
(* against the function's signature (CallFunctionOperation::CanBeProcessed),*)
(* the conversion of the parameters, the call, and the assembly of the      *)
(* reply with its handle ownership (CallFunctionParameterHandler).          *)
(*                                                                          *)
(* A function is given by its Igor declaration; Igor Pro reports it to the  *)
(* XOP as a FunctionInfo whose types are bit masks, modelled as sets of     *)
(* bits.  A parameter text is abstracted to what the conversions tell apart.*)
(***************************************************************************)
EXTENDS Naturals, Sequences, FiniteSets, SequencesExt

CONSTANTS
  Bases,        \* types of the Igor language a declaration may use
  MaxReturns,   \* bound: return values of the multiple return value syntax
  MaxInputs     \* bound: input parameters, and parameters of a request

AllBases == {"variable", "complex", "string", "dfref", "wave", "struct"}

\* number: strtod accepts all of it; path: names a data folder; text: neither;
\* long: neither, and has MAXCMDLEN characters or more
Texts == {"number", "path", "text", "long"}

ASSUME CallAssumption ==
  /\ Bases \subseteq AllBases
  /\ MaxReturns \in Nat /\ MaxInputs \in Nat

Bits(base) ==
  CASE base = "variable" -> {"FP64"}
    [] base = "complex"  -> {"FP64", "CMPLX"}
    [] base = "string"   -> {"HSTRING"}
    [] base = "dfref"    -> {"DATAFOLDER"}
    [] base = "wave"     -> {"WAVE"}
    [] base = "struct"   -> {"STRUCT"}

AllBits == UNION {Bits(b) : b \in AllBases} \cup {"REF", "NORETURN"}

Inputs == [base : Bases, ref : BOOLEAN]
UpTo(S, n) == UNION {[1..k -> S] : k \in 0..n}

\* the k-th smallest number of a set
Nth(S, k) == CHOOSE i \in S : Cardinality({j \in S : j <= i}) = k

\* Function f(...) with one return value, or Function [...] f(...)
Decls == [multi : {FALSE}, rets : [1..1 -> Bases], ins : UpTo(Inputs, MaxInputs)]
    \cup [multi : {TRUE}, rets : UpTo(Bases, MaxReturns) \ {<<>>}, ins : UpTo(Inputs, MaxInputs)]

\* GetFunctionInfo: return values of the multiple return value syntax are
\* pass-by-reference parameters in front of the others
GetFunctionInfo(d) ==
  LET ins  == [i \in DOMAIN d.ins |-> Bits(d.ins[i].base) \cup IF d.ins[i].ref THEN {"REF"} ELSE {}]
      rets == [i \in DOMAIN d.rets |-> Bits(d.rets[i]) \cup {"REF"}]
  IN  [returnType     |-> IF d.multi THEN {"NORETURN"} ELSE Bits(d.rets[1]),
       parameterTypes |-> IF d.multi THEN rets \o ins ELSE ins]

VARIABLES
  decl,    \* the function
  params,  \* m_params of the request
  stage,   \* how far the operation has come
  code,    \* error code of the reply
  slots,   \* the parameter storage of the handler
  ret,     \* m_retStorage
  result,  \* types of the values under "result"
  byRef,   \* types of the values under "passByReference"
  freed    \* freed[i]: how often the handle of slot i was disposed; 0: ret

vars == <<decl, params, stage, code, slots, ret, result, byRef, freed>>

fip == GetFunctionInfo(decl)
Types == fip.parameterTypes

IsBitSet(type, bit) == bit \in type
ClearBit(type, bit) == type \ {bit}
IsWaveType(type) == IsBitSet(type, "WAVE")
IsConvertibleToDouble(text) == text = "number"

UsesMultipleReturnValueSyntax == fip.returnType = {"NORETURN"}

\* the leading pass-by-reference parameters
GetNumberOfReturnValues ==
  IF ~UsesMultipleReturnValueSyntax THEN 1
  ELSE LET it == SelectInSeq(Types, LAMBDA ty : ~IsBitSet(ty, "REF"))
       IN  IF it = 0 THEN Len(Types) ELSE it - 1

GetNumberOfInputParameters ==
  IF ~UsesMultipleReturnValueSyntax THEN Len(Types)
  ELSE Len(Types) - GetNumberOfReturnValues

GetFirstInputParameterIndex ==
  IF UsesMultipleReturnValueSyntax THEN GetNumberOfReturnValues ELSE 0

IsInput(i) == i > GetFirstInputParameterIndex
Text(i) == params[i - GetFirstInputParameterIndex]

Init ==
  /\ decl \in Decls
  /\ params \in UpTo(Texts, MaxInputs)
  /\ stage = "new" /\ code = "REQ_SUCCESS"
  /\ slots = <<>> /\ ret = "unset"
  /\ result = <<>> /\ byRef = <<>>
  /\ freed = [i \in 0..Len(Types) |-> 0]
-----------------------------------------------------------------------------
(* CanBeProcessed *)

\* mutant: complex numbers pass
SupportedInputComplex(type) ==
  \E bit \in {"FP64", "HSTRING", "DATAFOLDER"} : IsBitSet(type, bit)

SupportedInput(type) ==
  \/ IsBitSet(type, "FP64") /\ ~IsBitSet(type, "CMPLX")
  \/ IsBitSet(type, "HSTRING")
  \/ IsBitSet(type, "DATAFOLDER")
SupportedOutput(type) == SupportedInput(type) \/ IsWaveType(type)

\* the first unsupported parameter decides between the two codes
SignatureCode ==
  LET bad == SelectInSeq([i \in DOMAIN Types |-> <<i, Types[i]>>], LAMBDA p :
               IF IsInput(p[1]) THEN ~SupportedInput(p[2]) ELSE ~SupportedOutput(p[2]))
  IN  CASE bad = 0 -> "REQ_SUCCESS"
        [] bad # 0 /\ IsInput(bad) -> "REQ_UNSUPPORTED_FUNC_SIG"
        [] OTHER -> "REQ_UNSUPPORTED_FUNC_RET"

CheckCode ==
  IF Len(params) < GetNumberOfInputParameters THEN "REQ_TOO_FEW_FUNCTION_PARAMS"
  ELSE IF Len(params) > GetNumberOfInputParameters THEN "REQ_TOO_MANY_FUNCTION_PARAMS"
  ELSE IF \E i \in DOMAIN Types : /\ IsInput(i) /\ IsBitSet(Types[i], "FP64")
                                  /\ ~IsConvertibleToDouble(Text(i))
    THEN "REQ_INVALID_PARAM_FORMAT"
  ELSE IF fip.returnType \notin {{"FP64"}, {"HSTRING"}, {"WAVE"}, {"DATAFOLDER"}, {"NORETURN"}}
    THEN "REQ_UNSUPPORTED_FUNC_RET"
  ELSE SignatureCode

CanBeProcessed ==
  /\ stage = "new"
  /\ code' = CheckCode
  /\ stage' = IF code' = "REQ_SUCCESS" THEN "checked" ELSE "replied"
  /\ UNCHANGED <<decl, params, slots, ret, result, byRef, freed>>
-----------------------------------------------------------------------------
(* CallFunctionParameterHandler *)

\* mutant: the switch has no case for waves
HasParameterSizeNoWave(type) ==
  ClearBit(type, "REF") \in {{"FP64"}, {"HSTRING"}, {"DATAFOLDER"}}

\* the constructor's switch over the types, ASSERT(0) otherwise
HasParameterSize(type) ==
  ClearBit(type, "REF") \in {{"FP64"}, {"HSTRING"}, {"DATAFOLDER"}} \/ IsWaveType(type)

\* ConvertStringToIgorTypeUnion: what lands in the slot, or the error it throws
Errors == {"INTERNAL_ERROR", "REQ_INVALID_PARAM_FORMAT"}
Convert(type, text) ==
  LET base == ClearBit(type, "REF") IN
  CASE base = {"FP64"} /\ IsConvertibleToDouble(text) -> "value"
    [] base = {"HSTRING"} -> "string"
    [] base = {"DATAFOLDER"} /\ text = "path" -> "folder"
    [] base = {"DATAFOLDER"} /\ text = "long" -> "REQ_INVALID_PARAM_FORMAT"
    [] OTHER -> "INTERNAL_ERROR"

Converted == [i \in DOMAIN Types |-> IF IsInput(i) THEN Convert(Types[i], Text(i)) ELSE "null"]

\* mutant: a failed conversion goes unnoticed
ConstructUnchecked ==
  /\ stage = "checked"
  /\ stage' = "ready" /\ slots' = Converted
  /\ UNCHANGED <<decl, params, code, ret, result, byRef, freed>>

Constructible ==
  \A i \in DOMAIN Types : HasParameterSize(Types[i]) /\ Converted[i] \notin Errors

\* the sizes are looked up first, then the first conversion that fails throws
ConstructError(e) ==
  \/ e = "INTERNAL_ERROR" /\ \E i \in DOMAIN Types : ~HasParameterSize(Types[i])
  \/ /\ \A i \in DOMAIN Types : HasParameterSize(Types[i])
     /\ \E i \in DOMAIN Types : /\ Converted[i] = e
                               /\ \A j \in 1..i - 1 : Converted[j] \notin Errors

\* a function without parameters takes the early return; a throwing
\* constructor leaves the handles converted so far behind
Construct ==
  /\ stage = "checked"
  /\ IF (GetNumberOfInputParameters = 0 /\ ~UsesMultipleReturnValueSyntax) \/ Constructible
     THEN stage' = "ready" /\ slots' = Converted /\ UNCHANGED code
     ELSE /\ \E e \in Errors : ConstructError(e) /\ code' = e
          /\ stage' = "replied" /\ UNCHANGED slots
  /\ UNCHANGED <<decl, params, ret, result, byRef, freed>>

\* what a value of this type is after the call; a string passed by value is
\* disposed by the callee
AfterCall(type) ==
  CASE "HSTRING" \in type -> "string"
    [] "DATAFOLDER" \in type -> "folder"
    [] IsWaveType(type) -> "wave"
    [] OTHER -> "value"

\* Igor Pro runs the function
FunctionRuns(outcome) ==
  /\ stage = "ready"
  /\ stage' = outcome
  /\ slots' = [i \in DOMAIN slots |-> IF IsBitSet(Types[i], "REF") THEN AfterCall(Types[i]) ELSE "given"]
  /\ ret' = IF UsesMultipleReturnValueSyntax THEN "unset" ELSE AfterCall(fip.returnType)
  /\ UNCHANGED <<decl, params, code, result, byRef, freed>>

\* CallFunction itself fails
CallFails ==
  /\ stage = "ready"
  /\ code' = "INTERNAL_ERROR" /\ stage' = "cleanup"
  /\ UNCHANGED <<decl, params, slots, ret, result, byRef, freed>>

FunctionAborted ==
  /\ stage = "aborted"
  /\ code' = "REQ_FUNCTION_ABORTED" /\ stage' = "cleanup"
  /\ UNCHANGED <<decl, params, slots, ret, result, byRef, freed>>

\* GetTypeStringForIgorType, ASSERT(0) otherwise
TypeString(type) ==
  LET base == ClearBit(type, "REF") IN
  CASE base = {"FP64"} -> "variable" [] base = {"HSTRING"} -> "string"
    [] base = {"DATAFOLDER"} -> "dfref" [] IsWaveType(base) -> "wave"
    [] OTHER -> "INTERNAL_ERROR"

\* mutants: off by one at the first slot; the slot is not cleared
RefSlotsOffByOne(first, last) ==
  {i \in DOMAIN slots : first <= i /\ i <= last /\ IsBitSet(Types[i], "REF")}
ExtractKeepsHandle(is) ==
  /\ freed' = [i \in DOMAIN freed |->
                 freed[i] + IF i \in is /\ slots[i] = "string" THEN 1 ELSE 0]
  /\ UNCHANGED slots

\* ReadPassByRefParameters: ExtractFromUnion disposes of a string and clears
\* its slot, so that the destructor does not dispose of it again
RefSlots(first, last) ==
  {i \in DOMAIN slots : first < i /\ i <= last /\ IsBitSet(Types[i], "REF")}
Extract(is) ==
  /\ slots' = [i \in DOMAIN slots |-> IF i \in is THEN "null" ELSE slots[i]]
  /\ freed' = [i \in DOMAIN freed |->
                 freed[i] + IF i \in is /\ slots[i] = "string" THEN 1 ELSE 0]
TypeStrings(is) == [k \in 1..Cardinality(is) |-> TypeString(Types[Nth(is, k)])]

GetReturnValues ==
  /\ stage = "called"
  /\ stage' = "results"
  /\ IF UsesMultipleReturnValueSyntax
     THEN LET is == RefSlots(0, GetNumberOfReturnValues) IN
            /\ result' = TypeStrings(is)
            /\ Extract(is)
            /\ UNCHANGED ret
     ELSE /\ result' = <<TypeString(fip.returnType)>>
          /\ ret' = "null"
          /\ freed' = [freed EXCEPT ![0] = @ + IF ret = "string" THEN 1 ELSE 0]
          /\ UNCHANGED slots
  /\ UNCHANGED <<decl, params, code, byRef>>

GetPassByRefInputArray ==
  /\ stage = "results"
  /\ stage' = "cleanup"
  /\ LET is == RefSlots(GetFirstInputParameterIndex, Len(slots)) IN
       /\ byRef' = TypeStrings(is)
       /\ Extract(is)
  /\ UNCHANGED <<decl, params, code, ret, result>>

\* ExtractFromUnion cannot serialize a data folder or wave and throws: what is
\* in front of it has been read, the document is lost
ReadFails(is) ==
  /\ \E i \in is : slots[i] \in {"folder", "wave"} /\ Extract({j \in is : j < i})
  /\ code' = "INTERNAL_ERROR" /\ stage' = "cleanup" /\ result' = <<>>
  /\ UNCHANGED <<decl, params, ret, byRef>>

GetReturnValuesFails ==
  /\ stage = "called"
  /\ IF UsesMultipleReturnValueSyntax
     THEN ReadFails(RefSlots(0, GetNumberOfReturnValues))
     ELSE /\ ret \in {"folder", "wave"}
          /\ code' = "INTERNAL_ERROR" /\ stage' = "cleanup"
          /\ UNCHANGED <<decl, params, slots, ret, result, byRef, freed>>

GetPassByRefInputArrayFails ==
  stage = "results" /\ ReadFails(RefSlots(GetFirstInputParameterIndex, Len(slots)))

\* the destructor disposes of the pass-by-reference strings that are left
DestroyHandler ==
  /\ stage = "cleanup"
  /\ stage' = "replied"
  /\ Extract({i \in DOMAIN slots : Types[i] = {"HSTRING", "REF"}})
  /\ UNCHANGED <<decl, params, code, ret, result, byRef>>

Next ==
  \/ CanBeProcessed \/ Construct
  \/ FunctionRuns("called") \/ FunctionRuns("aborted") \/ CallFails
  \/ FunctionAborted
  \/ GetReturnValues \/ GetReturnValuesFails
  \/ GetPassByRefInputArray \/ GetPassByRefInputArrayFails
  \/ DestroyHandler

Spec == Init /\ [][Next]_vars
-----------------------------------------------------------------------------
TypeOK ==
  /\ decl \in Decls
  /\ params \in UpTo(Texts, MaxInputs)
  /\ stage \in {"new", "checked", "ready", "called", "aborted", "results", "cleanup", "replied"}
  /\ slots \in UpTo({"null", "value", "string", "folder", "wave", "given"}, MaxReturns + MaxInputs)
  /\ ret \in {"unset", "null", "value", "string", "folder", "wave"}

\* the limitation stated at HelperFunctions.cpp:640: with the multiple return
\* value syntax the first input must not be passed by reference
Limitation == decl.multi /\ decl.ins # <<>> /\ decl.ins[1].ref

\* the table "supported function parameter and return types" of Readme.rst
DocumentedAsSupported ==
  /\ \A i \in DOMAIN decl.rets : decl.rets[i] \in {"variable", "string", "wave", "dfref"}
  /\ \A i \in DOMAIN decl.ins : decl.ins[i].base \in {"variable", "string", "dfref"}

(* A call with the right number of convertible parameters passes the        *)
(* signature check exactly if the Readme lists all types of the function as *)
(* supported.                                                               *)
ChecksDocumentedTypes ==
  (stage # "new" /\ ~Limitation /\ Len(params) = Len(decl.ins)
     /\ \A i \in DOMAIN decl.ins : Bits(decl.ins[i].base) \cap {"FP64"} # {} => params[i] = "number")
  => (code \in {"REQ_UNSUPPORTED_FUNC_SIG", "REQ_UNSUPPORTED_FUNC_RET"} <=> ~DocumentedAsSupported)

(* What CanBeProcessed lets pass, the later switches over the types can     *)
(* handle: after the check the only conversions that can fail are those of  *)
(* a path that is too long or without a data folder, each with its code,    *)
(* and every value read back has a type name.                               *)
CheckedCallsConvert ==
  /\ (stage = "replied" /\ CheckCode = "REQ_SUCCESS" /\ slots = <<>> /\ Types # <<>>) =>
       \E i \in DOMAIN Types :
         /\ IsInput(i) /\ IsBitSet(Types[i], "DATAFOLDER")
         /\ \/ code = "REQ_INVALID_PARAM_FORMAT" /\ Text(i) = "long"
            \/ code = "INTERNAL_ERROR" /\ Text(i) \notin {"path", "long"}
  /\ Errors \cap (Range(result) \cup Range(byRef)) = {}

(* A successful reply has the declared return values and the declared       *)
(* pass-by-reference parameters, each in the order of the declaration.      *)
ReplyMatchesDeclaration ==
  (stage = "replied" /\ code = "REQ_SUCCESS" /\ ~Limitation) =>
    LET refs == {i \in DOMAIN decl.ins : decl.ins[i].ref} IN
      /\ result = decl.rets
      /\ byRef = [k \in 1..Cardinality(refs) |-> decl.ins[Nth(refs, k)].base]

(* A string handle passed by reference, or of the multiple return values,   *)
(* is disposed of once, by ExtractFromUnion or by the destructor: none is   *)
(* left after a success, an abort, or a value that cannot be serialized.    *)
(* The single returned string (index 0) only ExtractFromUnion disposes of:  *)
(* once in a successful reply, and never when the function was aborted,     *)
(* since the destructor does not look at m_retStorage: that handle leaks    *)
(* (CallFunctionParameterHandler.cpp:215-235).                              *)
StringsDisposedOnce ==
  /\ \A i \in DOMAIN freed : freed[i] <= 1
  /\ stage = "replied" =>
       /\ \A i \in DOMAIN slots : Types[i] = {"HSTRING", "REF"} =>
            /\ slots[i] # "string"
            /\ code \in {"REQ_SUCCESS", "REQ_FUNCTION_ABORTED"} => freed[i] = 1
       /\ fip.returnType = {"HSTRING"} =>
            /\ code = "REQ_SUCCESS" => freed[0] = 1
            /\ code = "REQ_FUNCTION_ABORTED" => freed[0] = 0 /\ ret = "string"
=============================================================================
