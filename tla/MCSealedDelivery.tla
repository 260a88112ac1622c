--------------------------- MODULE MCSealedDelivery --------------------------
EXTENDS SealedFanOut, TLC

Root  == <<"root", "trust", 0>>
Other == <<"root", "other", 0>>
ServerKey(n) == <<"server", "", n>>

\* Key id 1 is good, 2 is revoked, 3 is certified by another root.
MCServerCertificates ==
    {NewServerCertificate(1, ServerKey(1), Root), NewServerCertificate(2, ServerKey(2), Root),
     NewServerCertificate(3, ServerKey(3), Other)}

Form(with, without) == [with |-> with, without |-> without]

MCForms ==
    {Form("uuidBytes" :> [uuid |-> "A", length |-> 16], {"uuidString"}),
     Form("uuidBytes" :> [uuid |-> "A", length |-> 15], {"uuidString"}),
     Form("signerID" :> 1, {"signerCertificate"}),
     Form("expires" :> 2^TimeBits - 1, {"expires"}),
     Form("expires" :> 2^(TimeBits - 1) - 1, {"expires"}),
     Form("senderE164" :> "+1", {})}
    \cup {Form(<<>>, {f}) : f \in {"uuidString", "senderDevice", "expires", "identityKey",
                                    "signerCertificate"}}

Payload(t, contents, hint, groupID) ==
    [type |-> t, contents |-> contents, hint |-> hint, groupID |-> groupID]

MCPayloads == {Payload(2, <<"m">>, 0, <<>>), Payload(3, <<"m">>, 1, <<"g">>),
               Payload(7, <<"m">>, 2, <<>>), Payload(8, <<>>, 0, <<>>), Payload(9, <<"m">>, 0, <<>>)}

To(u, device, registration, back) ==
    [serviceID |-> u, deviceID |-> device, registrationID |-> registration, back |-> back]

MCRecipientLists ==
    {<<>>,
     <<To("B", 1, 3, 0)>>,
     <<To("B", 1, 0, 0), To("B", 2, 3, 0), To("C", 1, 1, 0)>>,
     <<To("B", 1, 0, 0), To("C", 1, 1, 0), To("B", 3, 2, 0)>>,
     <<To("B", 1, 0, 0), To("B", 2, 3, 1)>>,
     <<To("B", 1, 0, 1), To("C", 2, 3, 0)>>,
     <<To("B", 0, 0, 0)>>, <<To("B", 4, 0, 0)>>, <<To("C", 1, 4, 0)>>}

=============================================================================
