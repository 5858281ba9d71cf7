--------------------------- MODULE MCStreamReader ---------------------------
(* Messages with every optional part present and absent; 9 is the namespace,  *)
(* 8 the track, 4 the draft, 2 an unknown parameter.                          *)
EXTENDS StreamReader

Role == [type |-> ROLE_PARAM, value |-> 3]
Path == [type |-> ROLE_PATH, value |-> <<7>>]
Other == [type |-> 2, value |-> <<5, 6>>]

Sub(filter, params) ==
    [NoSubscribe EXCEPT !.SubscribeID = 1, !.TrackAlias = 2, !.TrackNameSpace = <<9>>,
                        !.TrackName = <<8>>, !.FilterType = filter, !.Params = params,
                        !.StartGroup = IF filter > 2 THEN 3 ELSE 0,
                        !.StartObject = IF filter > 2 THEN 4 ELSE 0,
                        !.EndGroup = IF filter = AbsoluteRange THEN 6 ELSE 0,
                        !.EndObject = IF filter = AbsoluteRange THEN 5 ELSE 0]
Ok(content) == [type |-> SUBSCRIBE_OK, SubscribeID |-> 1, Expires |-> 3, ContentExists |-> content,
                largestGroupId |-> 5, largestObjectId |-> 6]
Done(content) == [type |-> SUBSCRIBE_DONE, SubscribeID |-> 1, StatusCode |-> 3,
                  ReasonPhrase |-> <<9, 8>>, ContentExists |-> content,
                  FinalGroup |-> content * 6, FinalObject |-> content * 7]

MCMessages ==
    {Sub(LatestGroup, << >>), Sub(AbsoluteStart, <<Other>>), Sub(AbsoluteRange, << >>),
     Sub(LatestGroup, <<Other, Role>>),
     Ok(0), Ok(1), Done(0), Done(1),
     [type |-> CLIENT_SETUP, SupportedVersions |-> <<3, 4>>, Params |-> <<Path, Role>>],
     [type |-> CLIENT_SETUP, SupportedVersions |-> <<4>>, Params |-> <<Path, Other>>],
     [type |-> SERVER_SETUP, SelectedVersion |-> 4, Params |-> <<Role, [Role EXCEPT !.value = 1]>>],
     [type |-> ANNOUNCE, TrackNameSpace |-> <<9>>, Params |-> << >>],
     [type |-> ANNOUNCE_OK, TrackNameSpace |-> <<9>>],
     [type |-> UNSUBSCRIBE, SubscriptionID |-> 1]}
MCHeaders ==
    {[NoGroupHeader EXCEPT !.SubID = 1, !.TrackAlias = 2, !.GroupID = 3],
     [NoTrackHeader EXCEPT !.SubID = 1, !.TrackAlias = 2]}
MCObjects == {[ID |-> 0, Payload |-> <<7, 8>>], [ID |-> 1, Payload |-> << >>],
              [ID |-> 2, Payload |-> <<9>>]}
MCTrackObjects == {[GroupID |-> 5, ID |-> 0, Payload |-> <<7, 8>>],
                   [GroupID |-> 5, ID |-> 1, Payload |-> << >>],
                   [GroupID |-> 6, ID |-> 0, Payload |-> <<9>>]}
=============================================================================
