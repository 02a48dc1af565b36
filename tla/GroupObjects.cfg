SPECIFICATION FairSpec
CONSTANTS
    Value = {v}
    Unset = v
    Unencodable = {}
    GroupAddress = {2049}
    address_table <- MCAddressTable
    association_table <- MCAssociationTable
    group_object_table <- MCGroupObjectTable
    MaxOnLink = 2
INVARIANTS WrittenIsSent ConfirmationsSuffice
PROPERTIES OrdersAreServed TransmissionsSettle
