-------------------------- MODULE MCResultTransfer --------------------------
(***************************************************************************)
(* Calls of every method that #[xabi::trait_] accepts among MCSignatures.  *)
(***************************************************************************)
EXTENDS GeneratedCall

Path(name) == [head |-> "path", name |-> name, args |-> <<>>, extras |-> {}]
Of(name, t) == [Path(name) EXCEPT !.args = <<t>>]
Lending(name) == [Path(name) EXCEPT !.extras = {"lifetime"}]
Ref(elem, mut) == [head |-> "reference", elem |-> elem, mut |-> mut]
Impl(static, bounds) ==
  [head |-> "impl", static |-> static, bounds |-> bounds, plain |-> TRUE]
Pair(t, u) == [head |-> "tuple", elems |-> <<t, u>>]

Owner == Path("XabiOwnedBytesOwner")

(* A data type with owned bytes on both sides of a bool, one with owned    *)
(* bytes in an option before a text, and one for errors.                   *)
MCFields == [Chunk |-> <<Owner, Path("bool"), Path("String")>>,
             Entry |-> <<Of("Option", Owner), Path("u32"), Path("String")>>,
             Fault |-> <<Path("u32"), Of("Option", Path("String"))>>,
             View  |-> <<Path("XabiV1OwnedTrait")>>]

Errors == {Path("Error"), Path("Fault"), Lending("Fault"), Path("XabiV1OwnedTrait")}

Reader == Impl(TRUE, <<"Reader">>)

Payloads ==
  {Unit, Reader, Impl(FALSE, <<"Reader">>), Impl(TRUE, <<"Reader", "Writer">>),
   Pair(Owner, Reader), Pair(Path("Entry"), Reader), Pair(Owner, Owner),
   Pair(Lending("Chunk"), Reader), Lending("View"), Ref("str", FALSE)}
  \cup {Path(n) : n \in {"String", "Vec<u8>", "XabiOwnedBytesOwner", "u32", "bool", "Chunk",
                         "Entry", "Opaque", "XabiV1OwnedTrait"}}
  \cup {Of("Option", t) : t \in {Owner, Path("Chunk"), Of("Option", Path("String"))}}

Result(t, e) == [Path("Result") EXCEPT !.args = <<t, e>>]

Rets == {Path("Result"), [head |-> "none"]}
        \cup {Of("Result", t) : t \in {Path("String"), Owner}}
        \cup {Result(t, e) : t \in Payloads, e \in Errors}
        \cup (Payloads \ {Unit})

ArgLists == {<<>>, <<Ref("str", FALSE)>>, <<Ref("[u8]", FALSE)>>, <<Ref("[u8]", TRUE)>>,
             <<Path("Chunk")>>, <<Lending("View")>>, <<Owner, Ref("str", FALSE)>>}

(* All arguments with some results, and all results with some arguments.   *)
MCSignatures ==
  LET With(lists, rets) == [async : BOOLEAN, generic : BOOLEAN,
                            receiver : {"&self", "self"}, args : lists, ret : rets]
  IN With(ArgLists, {Path("String"), Path("Chunk"), Result(Owner, Path("Fault"))})
     \cup With({<<>>, <<Ref("str", FALSE)>>}, Rets)

(* The arguments make no difference to the way back.                       *)
MCMethods == {Expand(sig) : sig \in {s \in MCSignatures : Accepted(s)}}

(* Every type of a signature, of a field, or in one of them.               *)
MCTypes ==
  LET Elements(seqs) == UNION {{q[i] : i \in DOMAIN q} : q \in seqs}
      named == Rets \cup Payloads \cup Elements(ArgLists)
               \cup Elements({MCFields[d] : d \in DOMAIN MCFields})
      inside == Elements({t.args : t \in {u \in named : u.head = "path"}}
                         \cup {t.elems : t \in {u \in Payloads : u.head = "tuple"}})
  IN named \cup inside \cup {XabiError}
=============================================================================
